---------------------------- MODULE Spec2Model ----------------------------
(***************************************************************************)
(* Report validation and duplicate-detection pipeline of the civic ML      *)
(* backend (ml-backend-with-image/app): classify_report and reject in      *)
(* pipeline.py, the duplicate predicates of storage.py, and the ledger     *)
(* file dataset.jsonl written by dataset.save_report.                      *)
(*                                                                         *)
(* Python values are tagged tuples, so that values of different Python     *)
(* types can be compared: a key that a dict does not hold is Absent, None  *)
(* (JSON null) is None, a str is Str(s) with s the sequence of its         *)
(* characters, a number is Num(n), a bool is Bool(b), and image bytes are  *)
(* Bytes(i) with i naming the image content.  A dict is a function from    *)
(* Keys to values.  Confidences are counted in thousandths (0.1 is 100),   *)
(* latitudes in metres along one meridian.                                 *)
(***************************************************************************)
EXTENDS Integers, Sequences, FiniteSets, TLC

(***************************************************************************)
(* Bounds of the model.                                                    *)
(***************************************************************************)
\* number of classify_report calls of one behaviour
MaxReports == 2

\* largest threshold given to the image duplicate predicate
MaxThreshold == 2

(***************************************************************************)
(* Python values.                                                          *)
(***************************************************************************)
Absent == <<"absent">>
None == <<"none">>
Str(s) == <<"str", s>>
Num(n) == <<"num", n>>
Bool(b) == <<"bool", b>>
Bytes(i) == <<"bytes", i>>

IsStr(v) == v[1] = "str"
IsNum(v) == v[1] = "num"
IsBytes(v) == v[1] = "bytes"
Val(v) == v[2]

\* bool(v) of Python: None, "", 0, False and b"" are false
Truthy(v) ==
  CASE v[1] = "none" -> FALSE
    [] v[1] = "str" -> Len(v[2]) > 0
    [] v[1] = "num" -> v[2] # 0
    [] v[1] = "bool" -> v[2]
    [] v[1] = "bytes" -> v[2] # "empty"
    [] OTHER -> FALSE

\* v or d
OrElse(v, d) == IF Truthy(v) THEN v ELSE d

Keys == {"report_id", "description", "user_id", "latitude", "longitude", "image_bytes", "accept", "status", "category", "confidence", "urgency", "reason", "image_hash"}

EmptyDict == [k \in Keys |-> Absent]

\* d.get(k) and d.get(k, default)
Get(d, k) == IF d[k] = Absent THEN None ELSE d[k]
GetOr(d, k, default) == IF d[k] = Absent THEN default ELSE d[k]

\* the merge the other way round: the keys of a override those of b
Merge_FirstWins(a, b) == [k \in Keys |-> IF a[k] # Absent THEN a[k] ELSE b[k]]

\* {**a, **b}: the keys of b override those of a
Merge(a, b) == [k \in Keys |-> IF b[k] # Absent THEN b[k] ELSE a[k]]

\* del d[k]
Del(d, k) == [d EXCEPT ![k] = Absent]

(***************************************************************************)
(* Strings: sequences of one-character strings.                            *)
(***************************************************************************)
LowerChar(c) ==
  CASE c = "R" -> "r"
    [] c = "L" -> "l"
    [] c = "U" -> "u"
    [] c = "F" -> "f"
    [] c = "Other" -> "other"
    [] c = "Road & Traffic" -> "road & traffic"
    [] c = "Street Lighting" -> "street lighting"
    [] c = "A" -> "a"
    [] c = "Noise" -> "noise"
    [] OTHER -> c

\* str.lower()
Lower(s) == [i \in DOMAIN s |-> LowerChar(s[i])]

IsSpace(c) == c = " "

RECURSIVE LStrip(_)
LStrip(s) == IF s # <<>> /\ IsSpace(Head(s)) THEN LStrip(Tail(s)) ELSE s

RECURSIVE RStrip(_)
RStrip(s) == IF s # <<>> /\ IsSpace(s[Len(s)]) THEN RStrip(SubSeq(s, 1, Len(s) - 1)) ELSE s

\* str.strip()
Strip(s) == RStrip(LStrip(s))

\* str.split(): the maximal runs of non-space characters
RECURSIVE SplitFrom(_, _, _)
SplitFrom(s, word, acc) ==
  IF s = <<>> THEN (IF word = <<>> THEN acc ELSE Append(acc, word))
  ELSE IF IsSpace(Head(s)) THEN SplitFrom(Tail(s), <<>>, IF word = <<>> THEN acc ELSE Append(acc, word))
  ELSE SplitFrom(Tail(s), Append(word, Head(s)), acc)

Split(s) == SplitFrom(s, <<>>, <<>>)

\* " ".join(words)
RECURSIVE Join(_)
Join(words) ==
  IF words = <<>> THEN <<>>
  ELSE IF Len(words) = 1 THEN words[1]
  ELSE words[1] \o <<" ">> \o Join(Tail(words))

\* needle in hay
Contains(hay, needle) == \E i \in 0..(Len(hay) - Len(needle)) : SubSeq(hay, i + 1, i + Len(needle)) = needle


(***************************************************************************)
(* Categories, reasons and other fixed strings are strings of one symbol   *)
(* (the whole text): the code compares them and lower-cases them (see      *)
(* LowerChar), and never looks inside.                                     *)
(***************************************************************************)
Word(name) == Str(<<name>>)

Other == Word("Other")
RoadTraffic == Word("Road & Traffic")
StreetLighting == Word("Street Lighting")
\* a category of the classifier for which neither IMAGE_TO_CATEGORY_MAP nor CATEGORY_KEYWORDS has an entry
Noise == Word("Noise")

ReasonDescription == Word("Description is required")
ReasonCategoryError == Word("Category detection error")
ReasonUndetermined == Word("Unable to determine issue category. Please provide more details.")
ReasonAbusive == Word("Abusive language detected")
ReasonTextDup == Word("You have already submitted this report.")
ReasonLocationDup == Word("A similar issue has already been reported at this location.")
ReasonMismatch == Word("Image does not match the issue description. Please provide an image related to the reported category.")
ReasonImageDup == Word("Duplicate image detected. This image has already been used in another report.")
ReasonImageError == Word("Image validation error")
ReasonProcessing == Word("Processing error")
ReasonAccepted == Word("Report accepted successfully")

\* pipeline.py: CATEGORY_CONFIDENCE_THRESHOLD = 0.1, in thousandths
CATEGORY_CONFIDENCE_THRESHOLD == 100

(***************************************************************************)
(* app.text_rules (detect_category, is_abusive, detect_urgency and         *)
(* CATEGORY_KEYWORDS) and app.image_classifier are not among the sources.  *)
(* Each is a deterministic function of its argument.  The characters of a  *)
(* description stand for vocabulary terms: r and l are terms of a          *)
(* category with a high score, w and t are terms with a low score, n is a  *)
(* term of a category without image vocabulary, o is a                     *)
(* term that scores for no category, f is a profane term, h an urgent one. *)
(* The results cover every combination of category and confidence that    *)
(* the caller distinguishes.                                               *)
(***************************************************************************)
detect_category(description) ==
  LET d == Lower(description) IN
  IF Contains(d, <<"r">>) THEN <<RoadTraffic, 500>>
  ELSE IF Contains(d, <<"l">>) THEN <<StreetLighting, 504>>
  ELSE IF Contains(d, <<"t">>) THEN <<StreetLighting, 100>>
  ELSE IF Contains(d, <<"w">>) THEN <<RoadTraffic, 96>>
  ELSE IF Contains(d, <<"n">>) THEN <<Noise, 500>>
  ELSE IF Contains(d, <<"o">>) THEN <<Other, 500>>
  ELSE <<Other, 0>>

is_abusive(description) == Contains(Lower(description), <<"f">>)

detect_urgency(description) == IF Contains(Lower(description), <<"h">>) THEN Word("urgent") ELSE Word("normal")

\* text_rules.CATEGORY_KEYWORDS: the vocabulary of each category
CATEGORY_KEYWORDS(category) ==
  CASE category = "Road & Traffic" -> {<<"r", "o", "a", "d">>}
    [] category = "Street Lighting" -> {<<"l", "a", "m", "p">>}
    [] OTHER -> {}


(***************************************************************************)
(* Images.  The content of an image decides whether PIL can decode it,     *)
(* its perceptual hash (imagehash.phash, here 8 bits wide) and the label   *)
(* the image classifier gives it.                                          *)
(***************************************************************************)
Images == {"roadpic", "catpic", "badpic"}

\* more images: a second picture of a road, pictures that the classifier labels with a
\* generic label, with a blank label and with no label, and a picture on which the
\* classifier raises although PIL decodes it
MoreImages == {"roadpic2", "areapic", "blankpic", "nolabelpic", "failpic"}

\* Image.open(io.BytesIO(image_bytes)).convert('RGB') raises for bytes that are no image
Decodable(i) == i # "badpic"

phash(i) ==
  CASE i = "roadpic" -> 60
    [] i = "catpic" -> 61
    [] i = "roadpic2" -> 62
    [] i = "failpic" -> 56
    [] i = "areapic" -> 1
    [] i = "blankpic" -> 2
    [] i = "nolabelpic" -> 4
    [] OTHER -> 0

\* ic.classify_image_from_bytes: <<"ok", label>>, or <<"raise">>
classify_image_from_bytes(i) ==
  CASE i = "roadpic" -> <<"ok", Str(<<"r", "o", "a", "d">>)>>
    [] i = "roadpic2" -> <<"ok", Str(<<"r", "o", "a", "d">>)>>
    [] i = "catpic" -> <<"ok", Str(<<"c", "a", "t">>)>>
    [] i = "areapic" -> <<"ok", Str(<<" ", "A", "r", "e", "a">>)>>
    [] i = "blankpic" -> <<"ok", Str(<<" ">>)>>
    [] i = "nolabelpic" -> <<"ok", None>>
    [] OTHER -> <<"raise">>

HexDigits == <<"0", "1", "2", "3", "4", "5", "6", "7", "8", "9", "a", "b", "c", "d", "e", "f">>

\* str(img_hash): the hash in hexadecimal
HexStr(n) == <<HexDigits[(n \div 16) + 1], HexDigits[(n % 16) + 1]>>

HexDigitValue(c) == IF \E k \in 1..16 : HexDigits[k] = c THEN (CHOOSE k \in 1..16 : HexDigits[k] = c) - 1 ELSE 0 - 1

\* int(s, 16): the number, or -1 for the ValueError of a string that is no hexadecimal number
RECURSIVE ParseHexFrom(_, _)
ParseHexFrom(s, acc) ==
  IF s = <<>> THEN acc
  ELSE IF HexDigitValue(Head(s)) < 0 THEN 0 - 1
  ELSE ParseHexFrom(Tail(s), acc * 16 + HexDigitValue(Head(s)))

ParseHex(s) == IF s = <<>> THEN 0 - 1 ELSE ParseHexFrom(s, 0)

Abs(x) == IF x < 0 THEN 0 - x ELSE x

(***************************************************************************)
(* The ledger file data/dataset.jsonl is the sequence of the pieces that   *)
(* the write calls appended to it.  A piece holds the record whose JSON    *)
(* line it is (part "whole", ending with the newline), or the first part   *)
(* of that line (part "head"), or the rest of it with the newline (part    *)
(* "tail"); by is the call that wrote it.  A file that other writers left  *)
(* may also hold lines that are no record: a blank line (part "blank"), a  *)
(* line that is no JSON text (part "garbage"), and a line that is the JSON *)
(* text of a value that is no object, such as a number or null (part       *)
(* "scalar").                                                              *)
(***************************************************************************)
Piece(rec, part, by) == [rec |-> rec, part |-> part, by |-> by]

EndsLine(p) == p.part # "head"

\* the lines of the file as "for line in f" yields them: each the pieces up to a newline
RECURSIVE LinesFrom(_, _, _)
LinesFrom(file, line, acc) ==
  IF file = <<>> THEN (IF line = <<>> THEN acc ELSE Append(acc, line))
  ELSE IF EndsLine(Head(file)) THEN LinesFrom(Tail(file), <<>>, Append(acc, Append(line, Head(file))))
  ELSE LinesFrom(Tail(file), Append(line, Head(file)), acc)

Lines(file) == LinesFrom(file, <<>>, <<>>)

\* a line is the JSON text of a record when it is that record's whole line, or its head followed by its tail
IsRecordLine(line) ==
  \/ Len(line) = 1 /\ line[1].part = "whole"
  \/ Len(line) = 2 /\ line[1].part = "head" /\ line[2].part = "tail" /\ line[1].by = line[2].by

\* json.loads(line), for a line that is the text of a record
json_loads(line) == line[1].rec

\* json.loads(line) gives a value that is no dict
IsScalarLine(line) == Len(line) = 1 /\ line[1].part = "scalar"


(***************************************************************************)
(* storage.py.  Every predicate reads the ledger file anew; ioError says   *)
(* that opening or reading the file raises in this call.  A scan of the    *)
(* accepted reports ends "true" at the first match, "raise" at the first   *)
(* entry on which a statement of the loop body raises, and "false" at the  *)
(* end of the list.                                                        *)
(***************************************************************************)
\* the filter of line 27 left out: every record of the file is a precedent
IsAcceptedRecord_Any(report) == TRUE

IsAcceptedRecord(report) == Get(report, "status") = Word("accepted") /\ Get(report, "accept") = Bool(TRUE)

RECURSIVE AcceptedFrom(_)
AcceptedFrom(lines) ==
  IF lines = <<>> THEN <<>>
  ELSE IF IsRecordLine(Head(lines)) /\ IsAcceptedRecord(json_loads(Head(lines))) THEN <<json_loads(Head(lines))>> \o AcceptedFrom(Tail(lines))
  ELSE AcceptedFrom(Tail(lines))

\* report.get of a value that is no dict raises AttributeError, which only the outer handler catches
ScanRaises(lines) == \E i \in DOMAIN lines : IsScalarLine(lines[i])

_load_accepted_reports(file, ioError) == IF ioError \/ ScanRaises(Lines(file)) THEN <<>> ELSE AcceptedFrom(Lines(file))

Anon == Str(<<"a", "n", "o", "n">>)
EmptyStr == Str(<<>>)

\* " ".join(s.strip().lower().split())
NormalizeDescription(s) == Join(Split(Lower(Strip(s))))

\* x.lower() and x.strip() raise AttributeError when x is no str
TextFieldsRaise(report) ==
  \/ ~IsStr(OrElse(Get(report, "user_id"), Anon))
  \/ ~IsStr(OrElse(Get(report, "description"), EmptyStr))
  \/ ~IsStr(OrElse(Get(report, "category"), EmptyStr))

TextMatches(report, user_id_normalized, normalized_desc, category_normalized) ==
  /\ Lower(Val(OrElse(Get(report, "user_id"), Anon))) = user_id_normalized
  /\ NormalizeDescription(Val(OrElse(Get(report, "description"), EmptyStr))) = normalized_desc
  /\ Lower(Val(OrElse(Get(report, "category"), EmptyStr))) = category_normalized

RECURSIVE TextScan(_, _, _, _)
TextScan(reports, u, d, c) ==
  IF reports = <<>> THEN "false"
  ELSE IF TextFieldsRaise(Head(reports)) THEN "raise"
  ELSE IF TextMatches(Head(reports), u, d, c) THEN "true"
  ELSE TextScan(Tail(reports), u, d, c)

is_duplicate(user_id, description, category, file, ioError) ==
  IF ~IsStr(description) \/ ~IsStr(OrElse(user_id, Anon)) \/ ~IsStr(category) THEN FALSE
  ELSE TextScan(_load_accepted_reports(file, ioError), Lower(Val(OrElse(user_id, Anon))), NormalizeDescription(Val(description)), Lower(Val(category))) = "true"

\* metres between two points of one meridian; points of different meridians are far apart
haversine(lat1, lon1, lat2, lon2) == IF lon1 = lon2 THEN Abs(lat1 - lat2) ELSE 100000 + Abs(lat1 - lat2)

\* float(x) raises for a value that is no number
RECURSIVE LocationScan(_, _, _, _, _)
LocationScan(reports, lat, lon, c, threshold) ==
  IF reports = <<>> THEN "false"
  ELSE LET report == Head(reports)
           report_lat == Get(report, "latitude")
           report_lon == Get(report, "longitude") IN
       IF ~IsStr(OrElse(Get(report, "category"), EmptyStr)) THEN "raise"
       ELSE IF Lower(Val(OrElse(Get(report, "category"), EmptyStr))) = c /\ report_lat # None /\ report_lon # None
       THEN IF ~IsNum(report_lat) \/ ~IsNum(report_lon) \/ ~IsNum(lat) \/ ~IsNum(lon) THEN "raise"
            ELSE IF haversine(Val(lat), Val(lon), Val(report_lat), Val(report_lon)) <= threshold THEN "true"
            ELSE LocationScan(Tail(reports), lat, lon, c, threshold)
       ELSE LocationScan(Tail(reports), lat, lon, c, threshold)

\* without the handler of lines 239-244 taking the exception for "no duplicate": a scan that raises counts as a match
is_duplicate_location_FailClosed(lat, lon, description, category, threshold, file, ioError) ==
  IF ~IsStr(category) THEN TRUE
  ELSE LocationScan(_load_accepted_reports(file, ioError), lat, lon, Lower(Val(category)), threshold) # "false"

is_duplicate_location(lat, lon, description, category, threshold, file, ioError) ==
  IF ~IsStr(category) THEN FALSE
  ELSE LocationScan(_load_accepted_reports(file, ioError), lat, lon, Lower(Val(category)), threshold) = "true"

\* the stored hash as a number: int(report_hash, 16) of a str, int(report_hash) of a number; -1 for ValueError and TypeError
StoredHashInt(report_hash) ==
  IF IsStr(report_hash) THEN ParseHex(Val(report_hash))
  ELSE IF IsNum(report_hash) THEN Val(report_hash)
  ELSE 0 - 1

RECURSIVE ImageScan(_, _)
ImageScan(reports, img_hash_int) ==
  IF reports = <<>> THEN FALSE
  ELSE LET report_hash == Get(Head(reports), "image_hash") IN
       IF report_hash # None /\ StoredHashInt(report_hash) >= 0 /\ Abs(img_hash_int - StoredHashInt(report_hash)) = 0 THEN TRUE
       ELSE ImageScan(Tail(reports), img_hash_int)

is_duplicate_image_from_bytes(image_bytes, threshold, file, ioError) ==
  IF ~Truthy(image_bytes) THEN FALSE
  ELSE IF ~IsBytes(image_bytes) \/ ~Decodable(Val(image_bytes)) THEN FALSE
  ELSE ImageScan(_load_accepted_reports(file, ioError), ParseHex(HexStr(phash(Val(image_bytes)))))


(***************************************************************************)
(* pipeline.py: the image/category matcher.                                *)
(***************************************************************************)
\* a part of IMAGE_TO_CATEGORY_MAP
IMAGE_TO_CATEGORY_MAP(category) ==
  CASE category = "Road & Traffic" -> {<<"p", "o", "t", "h", "o", "l", "e">>, <<"r", "o", "a", "d">>, <<"d", "a", "m", "a", "g", "e", "d", " ", "r", "o", "a", "d">>}
    [] category = "Street Lighting" -> {<<"l", "a", "m", "p">>, <<"l", "i", "g", "h", "t">>}
    [] OTHER -> {}

\* GENERIC_IMAGE_LABELS
GENERIC_IMAGE_LABELS ==
  {<<"o", "t", "h", "e", "r">>, <<"o", "u", "t", "d", "o", "o", "r">>,
   <<"o", "u", "t", "d", "o", "o", "r", " ", "s", "p", "a", "c", "e">>,
   <<"p", "u", "b", "l", "i", "c", " ", "s", "p", "a", "c", "e">>,
   <<"a", "r", "e", "a">>, <<"s", "c", "e", "n", "e">>, <<"g", "e", "n", "e", "r", "a", "l">>}

SeqToSet(q) == {q[i] : i \in DOMAIN q}

\* only the vocabulary of the category decides: no label and no category is let through as uncertain
LabelMatches_VocabularyOnly(label, category) ==
  LET image_label == IF Truthy(label) THEN Strip(Lower(Val(label))) ELSE <<"o", "t", "h", "e", "r">>
      allowed_labels == {Lower(lbl) : lbl \in IMAGE_TO_CATEGORY_MAP(Val(category)[1])}
      category_keywords == {Lower(kw) : kw \in CATEGORY_KEYWORDS(Val(category)[1])}
  IN
  \/ image_label \in allowed_labels
  \/ \E lbl \in allowed_labels : Contains(image_label, lbl) \/ Contains(lbl, image_label)
  \/ \E kw \in category_keywords : Contains(image_label, kw) \/ Contains(kw, image_label)

\* methods 4 and 5 left out: the words of the label are not compared
LabelMatches_NoWords(label, category) ==
  LET image_label == IF Truthy(label) THEN Strip(Lower(Val(label))) ELSE <<"o", "t", "h", "e", "r">>
      allowed_labels == {Lower(lbl) : lbl \in IMAGE_TO_CATEGORY_MAP(Val(category)[1])}
      category_keywords == {Lower(kw) : kw \in CATEGORY_KEYWORDS(Val(category)[1])}
  IN
  IF image_label = <<>> THEN TRUE
  ELSE IF image_label = <<"o", "t", "h", "e", "r">> THEN TRUE
  ELSE IF image_label \in GENERIC_IMAGE_LABELS THEN TRUE
  ELSE IF image_label \in allowed_labels THEN TRUE
  ELSE IF \E lbl \in allowed_labels : Contains(image_label, lbl) \/ Contains(lbl, image_label) THEN TRUE
  ELSE IF \E kw \in category_keywords : Contains(image_label, kw) \/ Contains(kw, image_label) THEN TRUE
  ELSE IF allowed_labels = {} /\ category_keywords = {} THEN TRUE
  ELSE FALSE

\* lines 257-331: the decision on a label the classifier returned
LabelMatches(label, category) ==
  LET image_label == IF Truthy(label) THEN Strip(Lower(Val(label))) ELSE <<"o", "t", "h", "e", "r">>
      allowed_labels == {Lower(lbl) : lbl \in IMAGE_TO_CATEGORY_MAP(Val(category)[1])}
      category_keywords == {Lower(kw) : kw \in CATEGORY_KEYWORDS(Val(category)[1])}
      image_words == SeqToSet(Split(image_label))
  IN
  IF image_label = <<>> THEN TRUE
  ELSE IF image_label = <<"o", "t", "h", "e", "r">> THEN TRUE
  ELSE IF image_label \in GENERIC_IMAGE_LABELS THEN TRUE
  ELSE IF image_label \in allowed_labels THEN TRUE
  ELSE IF \E lbl \in allowed_labels : Contains(image_label, lbl) \/ Contains(lbl, image_label) THEN TRUE
  ELSE IF \E kw \in category_keywords : Contains(image_label, kw) \/ Contains(kw, image_label) THEN TRUE
  ELSE IF \E lbl \in allowed_labels : image_words \cap SeqToSet(Split(lbl)) # {} THEN TRUE
  ELSE IF \E word \in image_words : Len(word) > 2 /\ (\/ \E kw \in category_keywords : Contains(kw, word) \/ Contains(word, kw)
                                                        \/ \E lbl \in allowed_labels : Contains(lbl, word) \/ Contains(word, lbl)) THEN TRUE
  ELSE IF allowed_labels = {} /\ category_keywords = {} THEN TRUE
  ELSE IF allowed_labels # {} \/ category_keywords # {} THEN FALSE
  ELSE TRUE

\* an exception of the classifier taken for a mismatch
image_matches_category_from_bytes_FailClosed(image_bytes, category) ==
  LET got == classify_image_from_bytes(Val(image_bytes)) IN
  IF got[1] = "raise" THEN FALSE ELSE LabelMatches(got[2], category)

\* an exception of the classifier is caught and the image let through
image_matches_category_from_bytes(image_bytes, category) ==
  LET got == classify_image_from_bytes(Val(image_bytes)) IN
  IF got[1] = "raise" THEN TRUE ELSE LabelMatches(got[2], category)

(***************************************************************************)
(* pipeline.py: the results and the records classify_report and reject     *)
(* build.                                                                  *)
(***************************************************************************)
\* round(confidence, 2), on thousandths
Round2(c) ==
  LET r == c % 10
      q == c \div 10 IN
  IF r < 5 THEN q * 10
  ELSE IF r > 5 THEN (q + 1) * 10
  ELSE IF q % 2 = 0 THEN q * 10 ELSE (q + 1) * 10

Unknown == Word("unknown")

\* the result of reject without its "status" key
RejectResult_NoStatus(rep, reason, cat, conf) ==
  [EmptyDict EXCEPT !["report_id"] = GetOr(rep, "report_id", Unknown),
                    !["accept"] = Bool(FALSE),
                    !["category"] = cat,
                    !["confidence"] = Num(Round2(conf)),
                    !["reason"] = reason]

\* reject, lines 345-352
RejectResult(rep, reason, cat, conf) ==
  [EmptyDict EXCEPT !["report_id"] = GetOr(rep, "report_id", Unknown),
                    !["accept"] = Bool(FALSE),
                    !["status"] = Word("rejected"),
                    !["category"] = cat,
                    !["confidence"] = Num(Round2(conf)),
                    !["reason"] = reason]

\* the merged dict saved as it is, without the del of image_bytes
ReportForSave_KeepsBytes(rep, res) == Merge(rep, res)

\* report_for_save of reject (lines 354-357) and of classify_report (lines 222-225)
ReportForSave(rep, res) == Del(Merge(rep, res), "image_bytes")

\* the locals description, user_id, latitude, longitude and image_bytes of classify_report
\* the description taken as it is given, without strip()
DescriptionOf_NoStrip(rep) == Str(Val(OrElse(Get(rep, "description"), EmptyStr)))

DescriptionOf(rep) == Str(Strip(Val(OrElse(Get(rep, "description"), EmptyStr))))
UserIdOf(rep) == GetOr(rep, "user_id", Anon)

\* classify_report, lines 191-204
AcceptResult(rep, cat, conf, urgency) ==
  [EmptyDict EXCEPT !["report_id"] = GetOr(rep, "report_id", Unknown),
                    !["accept"] = Bool(TRUE),
                    !["status"] = Word("accepted"),
                    !["category"] = cat,
                    !["confidence"] = Num(Round2(conf)),
                    !["urgency"] = urgency,
                    !["reason"] = ReasonAccepted,
                    !["user_id"] = UserIdOf(rep),
                    !["description"] = DescriptionOf(rep),
                    !["latitude"] = Get(rep, "latitude"),
                    !["longitude"] = Get(rep, "longitude")]

\* json.dumps raises TypeError for a dict that holds bytes
Serializable(rec) == \A k \in Keys : ~IsBytes(rec[k])


(***************************************************************************)
(* The reports submitted: the dicts passed to classify_report.             *)
(***************************************************************************)
Report(id, description, user_id, latitude, longitude, image_bytes) ==
  [EmptyDict EXCEPT !["report_id"] = id, !["description"] = description, !["user_id"] = user_id,
                    !["latitude"] = latitude, !["longitude"] = longitude, !["image_bytes"] = image_bytes]

\* a report that holds one more key
With(rep, k, v) == [rep EXCEPT ![k] = v]

Id == Str(<<"i">>)
User == Str(<<"u">>)

\* user ids that differ in letter case and in spacing
UserIds == {Str(<<"u">>), Str(<<"U">>), Str(<<"u", " ">>)}

\* coordinates of which one is missing, and the point where both are 0
PartialCoordinates == {<<Num(0), Num(0)>>, <<Num(0), None>>, <<None, Num(0)>>}

\* a submission without user id: the key missing (streamlit_app.py), None (main.py, line 112), and the empty string
NoUserIds == {Absent, None, Str(<<>>)}

Coordinates == {<<None, None>>, <<Num(0), Num(0)>>, <<Num(20), Num(0)>>}
ImageValues == {None} \cup {Bytes(i) : i \in Images}

\* descriptions that are missing, None, empty or blank, and one that is not
BlankDescriptions == {Absent, None, Str(<<>>), Str(<<" ">>), Str(<<"r">>)}

\* descriptions with different terms, letter cases and spacing
Descriptions == {Str(<<"r">>), Str(<<" ", "R">>), Str(<<"r", "f">>), Str(<<"o">>), Str(<<"w">>), Str(<<"t">>), Str(<<"l", "h">>)}

\* reports that hold keys of the outcome, as the report of test_profanity.py holds "category"
CallerReports ==
  {With(Report(Id, Str(<<"r", "f">>), User, None, None, None), "urgency", Word("urgent")),
   With(Report(Id, Str(<<"r">>), User, None, None, None), "urgency", Word("urgent")),
   With(Report(Id, Str(<<"r", "h">>), User, None, None, None), "category", StreetLighting),
   With(With(Report(Id, Str(<<"r", "f">>), User, None, None, None), "status", Word("accepted")), "accept", Bool(TRUE)),
   With(With(Report(Id, Str(<<"o">>), User, None, None, None), "reason", ReasonAccepted), "confidence", Num(990)),
   With(Report(Id, Str(<<"l">>), User, None, None, None), "image_hash", Str(HexStr(phash("roadpic")))),
   Report(Id, Str(<<"r">>), User, None, None, Bytes("roadpic")),
   With(Report(Absent, Str(<<"l">>), User, None, None, Bytes("badpic")), "status", Word("rejected"))}

\* The reports of one behaviour are drawn from one family: reports that differ in
\* whether they have a description, in their text, in their place, in their image,
\* or in all of them; the workers of the concurrent specification are given one report.
Families == {"blank", "text", "place", "image", "mixed"}

ReportsOf(f) ==
  CASE f = "blank" -> {Report(Id, d, User, None, None, None) : d \in BlankDescriptions}
    [] f = "text" -> {Report(Id, d, User, None, None, None) : d \in Descriptions} \cup {Report(Id, Str(<<"r">>), u, None, None, None) : u \in {Absent, None}}
    [] f = "place" -> {Report(Id, d, User, c[1], c[2], None) : d \in {Str(<<"r">>), Str(<<"r", "h">>)}, c \in Coordinates}
    [] f = "image" -> {Report(Id, Str(<<"r">>), User, None, None, i) : i \in ImageValues}
                      \cup {Report(Id, Str(<<"r", "h">>), User, None, None, Bytes("roadpic"))}
                      \cup {With(Report(Id, Str(<<"r", "f">>), User, None, None, None), "image_hash", Str(HexStr(phash("roadpic"))))}
    [] f = "workers" -> {Report(Id, Str(<<"r">>), User, Num(0), Num(0), Bytes("roadpic"))}
    [] f = "near" -> {Report(Id, Str(<<"r">>), User, Num(0), Num(0), None),
                      Report(Id, Str(<<"r", "h">>), User, Num(10), Num(0), None),
                      Report(Id, Str(<<"r", "h">>), User, Num(11), Num(0), None)}
    [] f = "hash" -> {Report(Id, Str(<<"r">>), User, None, None, Bytes("roadpic")),
                      Report(Id, Str(<<"r", "h">>), User, None, None, Bytes("roadpic")),
                      Report(Id, Str(<<"r", "h">>), User, None, None, Bytes("roadpic2"))}
    [] f = "label" -> {Report(Id, Str(<<"r">>), User, None, None, Bytes(i)) : i \in {"areapic", "blankpic", "nolabelpic", "failpic", "badpic"}}
                      \cup {Report(Id, Str(<<"n">>), User, None, None, Bytes("catpic"))}
    [] f = "match" -> {Report(Id, Str(<<"n">>), User, Num(0), Num(0), Bytes("catpic")),
                       Report(Id, Str(<<"r">>), User, Num(0), Num(0), Bytes("catpic")),
                       Report(Id, Str(<<"r">>), User, Num(0), Num(0), Bytes("roadpic"))}
    [] f = "corrupt" -> {Report(Id, Str(<<"r">>), User, None, None, None)}
    [] f = "coords" -> {Report(Id, d, User, c[1], c[2], None) : d \in {Str(<<"r">>), Str(<<"r", "h">>)}, c \in PartialCoordinates}
    [] f = "badcoords" -> {Report(Id, Str(<<"r">>), User, Num(0), Num(0), None), Report(Id, Str(<<"r">>), User, Str(<<"x">>), Num(0), None)}
    [] f = "user" -> {Report(Id, Str(<<"r">>), u, None, None, None) : u \in UserIds}
    [] f = "anon" -> {Report(Id, Str(<<"r">>), u, None, None, None) : u \in NoUserIds \cup {Anon, User}}
    [] f = "caller" -> CallerReports
    [] f = "mixed" -> {Report(Id, d, User, Num(0), Num(0), i) : d \in {Str(<<"r">>), Str(<<"r", "h">>), Str(<<"r", "f">>)}, i \in {Bytes("roadpic"), Bytes("catpic")}}
                      \cup {Report(Id, Str(<<"l", "h">>), User, Num(0), Num(0), Bytes("roadpic"))}

(***************************************************************************)
(* Ledger files that the pipeline finds when it starts: data/dataset.jsonl *)
(* persists between runs and is a plain file that other writers can touch. *)
(***************************************************************************)
\* the line of an accepted report of an earlier run, with the given image_hash
StoredLine(user_id, image_hash) ==
  LET rec == Report(Id, Str(<<"r">>), user_id, None, None, None) IN
  Piece(With(ReportForSave(rec, AcceptResult(rec, RoadTraffic, 500, Word("normal"))), "image_hash", image_hash), "whole", 0)

OtherUser == Str(<<"v">>)

\* the line of an accepted record of another user with the given coordinates
StoredAt(latitude, longitude) ==
  LET rec == Report(Id, Str(<<"r">>), OtherUser, latitude, longitude, None) IN
  Piece(ReportForSave(rec, AcceptResult(rec, RoadTraffic, 500, Word("normal"))), "whole", 0)

\* stored latitudes: 0, 20 metres to the north, and a string that float() refuses
StoredLatitudes == {Num(0), Num(20), Str(<<"x">>)}

\* a line that is no record
OddLine(part) == Piece(EmptyDict, part, 0)

\* stored hashes: those of two images, a string that is no hexadecimal number, a number, and none
StoredHashes == {Str(HexStr(phash("roadpic"))), Str(HexStr(phash("roadpic2"))), Str(<<"z", "z">>), Num(phash("roadpic")), Absent}

CorruptLines == {OddLine("blank"), OddLine("garbage"), OddLine("scalar"), StoredLine(User, Absent)}

StoredFamilies == {"near", "hash", "label", "match", "corrupt", "user", "coords", "badcoords", "anon", "caller"}

StoredLedgers(f) ==
  CASE f = "hash" -> {<<>>} \cup {<<StoredLine(OtherUser, h)>> : h \in StoredHashes}
    [] f = "badcoords" -> {<<StoredAt(a, Num(0)), StoredAt(b, Num(0))>> : a \in StoredLatitudes, b \in StoredLatitudes}
    [] f = "corrupt" -> {<<a>> : a \in CorruptLines} \cup {<<a, b>> : a \in CorruptLines, b \in CorruptLines}
    [] OTHER -> {<<>>}

Workers == {1, 2}

VARIABLES family, ledger, pc, report, call, category, confidence, result, log, nsub, responses

vars == <<family, ledger, pc, report, call, category, confidence, result, log, nsub, responses>>

Init ==
  /\ family \in Families
  /\ ledger = <<>>
  /\ pc = [w \in Workers |-> "idle"]
  /\ report = [w \in Workers |-> EmptyDict]
  /\ call = [w \in Workers |-> 0]
  /\ category = [w \in Workers |-> None]
  /\ confidence = [w \in Workers |-> 0]
  /\ result = [w \in Workers |-> EmptyDict]
  /\ log = [w \in Workers |-> <<>>]
  /\ nsub = 0
  /\ responses = <<>>

\* a check that ran: its name, what it returned ("pass", "reject" or "raise"), and whether its read of the ledger failed
Ran(check, out, io) == [check |-> check, out |-> out, io |-> io]

\* the location check placed before the text check
After_LocationFirst(stage) ==
  CASE stage = "description" -> "category"
    [] stage = "category" -> "abuse"
    [] stage = "abuse" -> "locdup"
    [] stage = "locdup" -> "textdup"
    [] stage = "textdup" -> "imgmatch"
    [] stage = "imgmatch" -> "imgdup"
    [] stage = "imgdup" -> "urgency"
    [] stage = "urgency" -> "hash"
    [] stage = "hash" -> "accept"

\* classify_report, lines 99-236: the statement that follows each check when it lets the report through
After(stage) ==
  CASE stage = "description" -> "category"
    [] stage = "category" -> "abuse"
    [] stage = "abuse" -> "textdup"
    [] stage = "textdup" -> "locdup"
    [] stage = "locdup" -> "imgmatch"
    [] stage = "imgmatch" -> "imgdup"
    [] stage = "imgdup" -> "urgency"
    [] stage = "urgency" -> "hash"
    [] stage = "hash" -> "accept"

Goto(w, label) == pc' = [pc EXCEPT ![w] = label]
Logged(w, entry) == log' = [log EXCEPT ![w] = Append(@, entry)]

\* return reject(report, reason, category, confidence): the result is built, then saved, then returned
Rejects(w, reason, cat, conf) ==
  /\ result' = [result EXCEPT ![w] = RejectResult(report[w], reason, cat, conf)]
  /\ Goto(w, "reject")

\* a caller passes a report to classify_report
Submit(w) ==
  /\ pc[w] = "idle"
  /\ nsub < MaxReports
  /\ \E r \in ReportsOf(family) : report' = [report EXCEPT ![w] = r]
  /\ nsub' = nsub + 1
  /\ call' = [call EXCEPT ![w] = nsub + 1]
  /\ Goto(w, "description")
  /\ UNCHANGED <<family, ledger, category, confidence, result, log, responses>>

\* lines 101-103
CheckDescription(w) ==
  /\ pc[w] = "description"
  /\ IF ~Truthy(DescriptionOf(report[w]))
     THEN Rejects(w, ReasonDescription, Other, 0)
     ELSE Goto(w, After("description")) /\ UNCHANGED result
  /\ UNCHANGED <<family, ledger, report, call, category, confidence, log, nsub, responses>>

\* the comparison against the threshold alone
CategoryUndetermined_ThresholdOnly(cat, conf) == conf < CATEGORY_CONFIDENCE_THRESHOLD

\* line 115: category == "Other" or confidence < CATEGORY_CONFIDENCE_THRESHOLD
CategoryUndetermined(cat, conf) == cat = Other \/ conf < CATEGORY_CONFIDENCE_THRESHOLD

\* lines 105-116; detect_category may raise
DetectCategory(w) ==
  /\ pc[w] = "category"
  /\ \E raises \in BOOLEAN :
       IF raises
       THEN /\ Rejects(w, ReasonCategoryError, Other, 0)
            /\ Logged(w, Ran("category", "raise", FALSE))
            /\ UNCHANGED <<category, confidence>>
       ELSE LET got == detect_category(Val(DescriptionOf(report[w]))) IN
            /\ category' = [category EXCEPT ![w] = got[1]]
            /\ confidence' = [confidence EXCEPT ![w] = got[2]]
            /\ IF CategoryUndetermined(got[1], got[2])
               THEN Rejects(w, ReasonUndetermined, got[1], got[2]) /\ Logged(w, Ran("category", "reject", FALSE))
               ELSE Goto(w, After("category")) /\ UNCHANGED result /\ Logged(w, Ran("category", "pass", FALSE))
  /\ UNCHANGED <<family, ledger, report, call, nsub, responses>>

\* the result of is_abusive not acted on: the report goes on to the duplicate checks
CheckAbuse_NoReturn(w) ==
  /\ pc[w] = "abuse"
  /\ \E raises \in BOOLEAN :
       IF raises
       THEN Rejects(w, ReasonProcessing, Other, 0) /\ Logged(w, Ran("abuse", "raise", FALSE))
       ELSE Goto(w, After("abuse")) /\ UNCHANGED result /\ Logged(w, Ran("abuse", "pass", FALSE))
  /\ UNCHANGED <<family, ledger, report, call, category, confidence, nsub, responses>>

\* lines 118-119; an exception of is_abusive reaches the handler of lines 238-242
CheckAbuse(w) ==
  /\ pc[w] = "abuse"
  /\ \E raises \in BOOLEAN :
       IF raises
       THEN Rejects(w, ReasonProcessing, Other, 0) /\ Logged(w, Ran("abuse", "raise", FALSE))
       ELSE IF is_abusive(Val(DescriptionOf(report[w])))
       THEN Rejects(w, ReasonAbusive, category[w], confidence[w]) /\ Logged(w, Ran("abuse", "reject", FALSE))
       ELSE Goto(w, After("abuse")) /\ UNCHANGED result /\ Logged(w, Ran("abuse", "pass", FALSE))
  /\ UNCHANGED <<family, ledger, report, call, category, confidence, nsub, responses>>

\* check and append as one step: the check that finds no duplicate writes the accepted record at once
CheckTextDuplicate_Reserves(w) ==
  /\ pc[w] = "textdup"
  /\ \E ioError \in BOOLEAN :
       IF is_duplicate(UserIdOf(report[w]), DescriptionOf(report[w]), category[w], ledger, ioError)
       THEN Rejects(w, ReasonTextDup, category[w], confidence[w]) /\ Logged(w, Ran("textdup", "reject", ioError)) /\ UNCHANGED ledger
       ELSE /\ Goto(w, After("textdup")) /\ UNCHANGED result /\ Logged(w, Ran("textdup", "pass", ioError))
            /\ ledger' = Append(ledger, Piece(ReportForSave(report[w], AcceptResult(report[w], category[w], confidence[w], Word("normal"))), "whole", call[w]))
  /\ UNCHANGED <<family, report, call, category, confidence, nsub, responses>>

\* a failed read of the ledger taken for a duplicate
CheckTextDuplicate_FailClosed(w) ==
  /\ pc[w] = "textdup"
  /\ \E ioError \in BOOLEAN :
       IF ioError \/ is_duplicate(UserIdOf(report[w]), DescriptionOf(report[w]), category[w], ledger, ioError)
       THEN Rejects(w, ReasonTextDup, category[w], confidence[w]) /\ Logged(w, Ran("textdup", "reject", ioError))
       ELSE Goto(w, After("textdup")) /\ UNCHANGED result /\ Logged(w, Ran("textdup", "pass", ioError))
  /\ UNCHANGED <<family, ledger, report, call, category, confidence, nsub, responses>>

\* lines 121-128
CheckTextDuplicate(w) ==
  /\ pc[w] = "textdup"
  /\ \E ioError \in BOOLEAN :
       IF is_duplicate(UserIdOf(report[w]), DescriptionOf(report[w]), category[w], ledger, ioError)
       THEN Rejects(w, ReasonTextDup, category[w], confidence[w]) /\ Logged(w, Ran("textdup", "reject", ioError))
       ELSE Goto(w, After("textdup")) /\ UNCHANGED result /\ Logged(w, Ran("textdup", "pass", ioError))
  /\ UNCHANGED <<family, ledger, report, call, category, confidence, nsub, responses>>

\* the coordinates tested for truth: latitude 0 and longitude 0 taken for missing
CheckLocationDuplicate_Truthy(w) ==
  /\ pc[w] = "locdup"
  /\ IF Truthy(Get(report[w], "latitude")) /\ Truthy(Get(report[w], "longitude"))
     THEN \E ioError \in BOOLEAN :
            IF is_duplicate_location(Get(report[w], "latitude"), Get(report[w], "longitude"), DescriptionOf(report[w]), category[w], 10, ledger, ioError)
            THEN Rejects(w, ReasonLocationDup, category[w], confidence[w]) /\ Logged(w, Ran("locdup", "reject", ioError))
            ELSE Goto(w, After("locdup")) /\ UNCHANGED result /\ Logged(w, Ran("locdup", "pass", ioError))
     ELSE Goto(w, After("locdup")) /\ UNCHANGED <<result, log>>
  /\ UNCHANGED <<family, ledger, report, call, category, confidence, nsub, responses>>

\* lines 130-139
CheckLocationDuplicate(w) ==
  /\ pc[w] = "locdup"
  /\ IF Get(report[w], "latitude") # None /\ Get(report[w], "longitude") # None
     THEN \E ioError \in BOOLEAN :
            IF is_duplicate_location(Get(report[w], "latitude"), Get(report[w], "longitude"), DescriptionOf(report[w]), category[w], 10, ledger, ioError)
            THEN Rejects(w, ReasonLocationDup, category[w], confidence[w]) /\ Logged(w, Ran("locdup", "reject", ioError))
            ELSE Goto(w, After("locdup")) /\ UNCHANGED result /\ Logged(w, Ran("locdup", "pass", ioError))
     ELSE Goto(w, After("locdup")) /\ UNCHANGED <<result, log>>
  /\ UNCHANGED <<family, ledger, report, call, category, confidence, nsub, responses>>

\* the mismatch noted without the return of line 154: the duplicate check follows
CheckImageMatch_NoReturn(w) ==
  /\ pc[w] = "imgmatch"
  /\ IF Truthy(Get(report[w], "image_bytes"))
     THEN IF ~image_matches_category_from_bytes(Get(report[w], "image_bytes"), category[w])
          THEN Goto(w, After("imgmatch")) /\ UNCHANGED result /\ Logged(w, Ran("imgmatch", "reject", FALSE))
          ELSE Goto(w, After("imgmatch")) /\ UNCHANGED result /\ Logged(w, Ran("imgmatch", "pass", FALSE))
     ELSE Goto(w, After("imgdup")) /\ UNCHANGED <<result, log>>
  /\ UNCHANGED <<family, ledger, report, call, category, confidence, nsub, responses>>

\* lines 141-161
CheckImageMatch(w) ==
  /\ pc[w] = "imgmatch"
  /\ IF Truthy(Get(report[w], "image_bytes"))
     THEN IF ~image_matches_category_from_bytes(Get(report[w], "image_bytes"), category[w])
          THEN Rejects(w, ReasonMismatch, category[w], confidence[w]) /\ Logged(w, Ran("imgmatch", "reject", FALSE))
          ELSE Goto(w, After("imgmatch")) /\ UNCHANGED result /\ Logged(w, Ran("imgmatch", "pass", FALSE))
     ELSE Goto(w, After("imgdup")) /\ UNCHANGED <<result, log>>
  /\ UNCHANGED <<family, ledger, report, call, category, confidence, nsub, responses>>

\* the candidate stored by the check that lets it through, as a predicate acting on store=True would
CheckImageDuplicate_Stores(w) ==
  /\ pc[w] = "imgdup"
  /\ \E ioError \in BOOLEAN :
       IF is_duplicate_image_from_bytes(Get(report[w], "image_bytes"), 0, ledger, ioError)
       THEN Rejects(w, ReasonImageDup, category[w], confidence[w]) /\ Logged(w, Ran("imgdup", "reject", ioError)) /\ UNCHANGED ledger
       ELSE /\ Goto(w, After("imgdup")) /\ UNCHANGED result /\ Logged(w, Ran("imgdup", "pass", ioError))
            /\ ledger' = Append(ledger, Piece(ReportForSave(report[w], AcceptResult(report[w], category[w], confidence[w], Word("normal"))), "whole", call[w]))
  /\ UNCHANGED <<family, report, call, category, confidence, nsub, responses>>

\* lines 163-180.  The handler of lines 181-186, which rejects, is reached by no exception:
\* the matcher (lines 333-338), the predicate (storage.py, lines 188-194) and the handler
\* of lines 176-180 catch every Exception raised by classifying, decoding and hashing.
CheckImageDuplicate(w) ==
  /\ pc[w] = "imgdup"
  /\ \E ioError \in BOOLEAN :
       IF is_duplicate_image_from_bytes(Get(report[w], "image_bytes"), 0, ledger, ioError)
       THEN Rejects(w, ReasonImageDup, category[w], confidence[w]) /\ Logged(w, Ran("imgdup", "reject", ioError))
       ELSE Goto(w, After("imgdup")) /\ UNCHANGED result /\ Logged(w, Ran("imgdup", "pass", ioError))
  /\ UNCHANGED <<family, ledger, report, call, category, confidence, nsub, responses>>

\* classify_report without the handler of lines 238-242: the exception of detect_urgency leaves the call
DetectUrgency_Unhandled(w) ==
  /\ pc[w] = "urgency"
  /\ \E raises \in BOOLEAN :
       IF raises
       THEN Goto(w, "raised") /\ UNCHANGED result /\ Logged(w, Ran("urgency", "raise", FALSE))
       ELSE /\ result' = [result EXCEPT ![w] = AcceptResult(report[w], category[w], confidence[w], detect_urgency(Val(DescriptionOf(report[w]))))]
            /\ Goto(w, After("urgency"))
            /\ Logged(w, Ran("urgency", "pass", FALSE))
  /\ UNCHANGED <<family, ledger, report, call, category, confidence, nsub, responses>>

\* lines 188-204; an exception of detect_urgency reaches the handler of lines 238-242
DetectUrgency(w) ==
  /\ pc[w] = "urgency"
  /\ \E raises \in BOOLEAN :
       IF raises
       THEN Rejects(w, ReasonProcessing, Other, 0) /\ Logged(w, Ran("urgency", "raise", FALSE))
       ELSE /\ result' = [result EXCEPT ![w] = AcceptResult(report[w], category[w], confidence[w], detect_urgency(Val(DescriptionOf(report[w]))))]
            /\ Goto(w, After("urgency"))
            /\ Logged(w, Ran("urgency", "pass", FALSE))
  /\ UNCHANGED <<family, ledger, report, call, category, confidence, nsub, responses>>

\* lines 206-218
ComputeImageHash(w) ==
  /\ pc[w] = "hash"
  /\ LET image_bytes == Get(report[w], "image_bytes") IN
     IF Truthy(image_bytes) /\ Decodable(Val(image_bytes))
     THEN result' = [result EXCEPT ![w]["image_hash"] = Str(HexStr(phash(Val(image_bytes))))]
     ELSE UNCHANGED result
  /\ Goto(w, After("hash"))
  /\ UNCHANGED <<family, ledger, report, call, category, confidence, log, nsub, responses>>

\* the file opened in mode "w": the line of the record replaces the content
save_report_Rewrites(report_dict, by, file, fails) ==
  IF fails \/ ~Serializable(report_dict) THEN file ELSE <<Piece(report_dict, "whole", by)>>

\* dataset.save_report: the line of the record is appended; opening the file, json.dumps or the write may raise
save_report(report_dict, by, file, fails) ==
  IF fails \/ ~Serializable(report_dict) THEN file ELSE Append(file, Piece(report_dict, "whole", by))

\* classify_report, lines 220-234: the exception of save_report is caught
AcceptSave(w) ==
  /\ pc[w] = "accept"
  /\ \E fails \in BOOLEAN : ledger' = save_report(ReportForSave(report[w], result[w]), call[w], ledger, fails)
  /\ Goto(w, "return")
  /\ UNCHANGED <<family, report, call, category, confidence, result, log, nsub, responses>>

\* reject, lines 353-366: the exception of save_report is caught
RejectSave(w) ==
  /\ pc[w] = "reject"
  /\ \E fails \in BOOLEAN : ledger' = save_report(ReportForSave(report[w], result[w]), call[w], ledger, fails)
  /\ Goto(w, "return")
  /\ UNCHANGED <<family, report, call, category, confidence, result, log, nsub, responses>>

\* return result (lines 236 and 367): the caller has the response, and the locals of the call are gone
Return(w) ==
  /\ pc[w] = "return"
  /\ responses' = Append(responses, [call |-> call[w], report |-> report[w], result |-> result[w]])
  /\ report' = [report EXCEPT ![w] = EmptyDict]
  /\ call' = [call EXCEPT ![w] = 0]
  /\ category' = [category EXCEPT ![w] = None]
  /\ confidence' = [confidence EXCEPT ![w] = 0]
  /\ result' = [result EXCEPT ![w] = EmptyDict]
  /\ log' = [log EXCEPT ![w] = <<>>]
  /\ Goto(w, "idle")
  /\ UNCHANGED <<family, ledger, nsub>>

Step(w) ==
  \/ Submit(w)
  \/ CheckDescription(w)
  \/ DetectCategory(w)
  \/ CheckAbuse(w)
  \/ CheckTextDuplicate(w)
  \/ CheckLocationDuplicate(w)
  \/ CheckImageMatch(w)
  \/ CheckImageDuplicate(w)
  \/ DetectUrgency(w)
  \/ ComputeImageHash(w)
  \/ AcceptSave(w)
  \/ RejectSave(w)
  \/ Return(w)

\* one worker: each call of classify_report returns before the next starts
Next == Step(1)

Spec == Init /\ [][Next]_vars


(***************************************************************************)
(* The pipeline started on a ledger file that earlier runs and other       *)
(* writers left.                                                           *)
(***************************************************************************)
InitStored ==
  /\ family \in StoredFamilies
  /\ ledger \in StoredLedgers(family)
  /\ pc = [w \in Workers |-> "idle"]
  /\ report = [w \in Workers |-> EmptyDict]
  /\ call = [w \in Workers |-> 0]
  /\ category = [w \in Workers |-> None]
  /\ confidence = [w \in Workers |-> 0]
  /\ result = [w \in Workers |-> EmptyDict]
  /\ log = [w \in Workers |-> <<>>]
  /\ nsub = 0
  /\ responses = <<>>

SpecStored == InitStored /\ [][Next]_vars

(***************************************************************************)
(* Several workers: processes that call classify_report on the same file  *)
(* (server processes of app.main, streamlit_app.py).  dataset.save_report  *)
(* opens the file in append mode and writes the line with no lock and no   *)
(* other exclusion among the processes (dataset.py, lines 11-14).  The     *)
(* line of one record reaches the file in one write or, for a line longer  *)
(* than the buffer of the file object or on a file system whose appends    *)
(* are not atomic, in several writes.  The actions below are the write in  *)
(* two parts; what other workers write between the two parts lies between  *)
(* them in the file.                                                       *)
(***************************************************************************)
AcceptSaveHead(w) ==
  /\ pc[w] = "accept"
  /\ Serializable(ReportForSave(report[w], result[w]))
  /\ ledger' = Append(ledger, Piece(ReportForSave(report[w], result[w]), "head", call[w]))
  /\ Goto(w, "rest")
  /\ UNCHANGED <<family, report, call, category, confidence, result, log, nsub, responses>>

RejectSaveHead(w) ==
  /\ pc[w] = "reject"
  /\ Serializable(ReportForSave(report[w], result[w]))
  /\ ledger' = Append(ledger, Piece(ReportForSave(report[w], result[w]), "head", call[w]))
  /\ Goto(w, "rest")
  /\ UNCHANGED <<family, report, call, category, confidence, result, log, nsub, responses>>

SaveRest(w) ==
  /\ pc[w] = "rest"
  /\ ledger' = Append(ledger, Piece(ReportForSave(report[w], result[w]), "tail", call[w]))
  /\ Goto(w, "return")
  /\ UNCHANGED <<family, report, call, category, confidence, result, log, nsub, responses>>

InitWorkers ==
  /\ family = "workers"
  /\ ledger = <<>>
  /\ pc = [w \in Workers |-> "idle"]
  /\ report = [w \in Workers |-> EmptyDict]
  /\ call = [w \in Workers |-> 0]
  /\ category = [w \in Workers |-> None]
  /\ confidence = [w \in Workers |-> 0]
  /\ result = [w \in Workers |-> EmptyDict]
  /\ log = [w \in Workers |-> <<>>]
  /\ nsub = 0
  /\ responses = <<>>

StepWorkers(w) ==
  \/ Step(w)
  \/ AcceptSaveHead(w)
  \/ RejectSaveHead(w)
  \/ SaveRest(w)

NextWorkers == \E w \in Workers : StepWorkers(w)

SpecWorkers == InitWorkers /\ [][NextWorkers]_vars


(***************************************************************************)
(* main.py: the submit endpoint.  A request is the dict of its form        *)
(* fields: report_id and description are strings, user_id, latitude and    *)
(* longitude are strings or None, and image_bytes stands for the uploaded  *)
(* file: None without a file, the bytes that image.read() returns, or      *)
(* Unreadable for a file whose read raises.  A coordinate of the form is a *)
(* numeral of degrees; the pipeline gets it as a number, here in metres    *)
(* along the meridian (see haversine).                                     *)
(***************************************************************************)
Unreadable == <<"unreadable">>

\* MAX_IMAGE_SIZE, line 152
MAX_IMAGE_SIZE == 10 * 1024 * 1024

\* len(image_bytes)
ImageSize(i) ==
  CASE i = "empty" -> 0
    [] i = "fullpic" -> MAX_IMAGE_SIZE
    [] i = "hugepic" -> MAX_IMAGE_SIZE + 1
    [] OTHER -> 1024

\* metres of one degree on a sphere of radius 6,371,000 m
MetresPerDegree == 111195

IsDigit(c) == HexDigitValue(c) >= 0 /\ HexDigitValue(c) <= 9

RECURSIVE DigitsValue(_, _)
DigitsValue(s, acc) ==
  IF s = <<>> THEN acc
  ELSE IF ~IsDigit(Head(s)) THEN 0 - 1
  ELSE DigitsValue(Tail(s), acc * 10 + HexDigitValue(Head(s)))

\* float(s): <<"ok", degrees>>, <<"nan">> for the text nan, <<"raise">> for the ValueError of a text that is no number
ParseFloat(s) ==
  LET t == Strip(s)
      signed == t # <<>> /\ Head(t) \in {"-", "+"}
      body == IF signed THEN Tail(t) ELSE t IN
  IF body = <<"n", "a", "n">> THEN <<"nan">>
  ELSE IF body = <<>> \/ DigitsValue(body, 0) < 0 THEN <<"raise">>
  ELSE <<"ok", IF Head(t) = "-" THEN 0 - DigitsValue(body, 0) ELSE DigitsValue(body, 0)>>

\* the coordinate taken without the comparison against the limits
InRange_Any(degrees, limit) == TRUE

\* -90 <= latitude_float <= 90 (line 119), -180 <= longitude_float <= 180 (line 137)
InRange(degrees, limit) == 0 - limit <= degrees /\ degrees <= limit

\* lines 115-130 and 133-148: <<"ok", value>>, or <<"422">> for the HTTPException
ConvertCoordinate(text, limit) ==
  IF ~Truthy(text) THEN <<"ok", None>>
  ELSE LET got == ParseFloat(Val(text)) IN
       IF got[1] = "raise" THEN <<"422">>
       ELSE IF got[1] = "nan" THEN <<"422">>
       ELSE IF ~InRange(got[2], limit) THEN <<"422">>
       ELSE <<"ok", Num(got[2] * MetresPerDegree)>>

\* lines 151-180: <<"ok", image_bytes>>, or <<"422">>
ReadImage(image) ==
  IF image = None THEN <<"ok", None>>
  ELSE IF image = Unreadable THEN <<"422">>
  ELSE IF ImageSize(Val(image)) > MAX_IMAGE_SIZE THEN <<"422">>
  ELSE IF ImageSize(Val(image)) = 0 THEN <<"422">>
  ELSE <<"ok", image>>

\* lines 98-190: <<"ok", report_data>>, or <<"422">>
ReportData(form) ==
  LET latitude == ConvertCoordinate(form["latitude"], 90)
      longitude == ConvertCoordinate(form["longitude"], 180)
      image == ReadImage(form["image_bytes"]) IN
  IF ~Truthy(form["report_id"]) \/ ~Truthy(Str(Strip(Val(form["report_id"])))) THEN <<"422">>
  ELSE IF ~Truthy(form["description"]) \/ ~Truthy(Str(Strip(Val(form["description"])))) THEN <<"422">>
  ELSE IF latitude[1] = "422" THEN <<"422">>
  ELSE IF longitude[1] = "422" THEN <<"422">>
  ELSE IF image[1] = "422" THEN <<"422">>
  ELSE <<"ok", Report(Str(Strip(Val(form["report_id"]))),
                      Str(Strip(Val(form["description"]))),
                      IF Truthy(form["user_id"]) THEN Str(Strip(Val(form["user_id"]))) ELSE None,
                      latitude[2], longitude[2], image[2])>>

\* the response of an HTTPException with status code 422
HttpError == [EmptyDict EXCEPT !["status"] = Word("422"), !["reason"] = Word("Validation error")]

\* lines 224-231: classify_report could not be called
ErrorResult(form) ==
  [EmptyDict EXCEPT !["report_id"] = Str(Strip(Val(form["report_id"]))),
                    !["accept"] = Bool(FALSE),
                    !["status"] = Word("error"),
                    !["category"] = Other,
                    !["confidence"] = Num(0),
                    !["reason"] = Word("ML classification error")]

FormIds == {Str(<<>>), Str(<<" ">>), Str(<<" ", "i">>)}
FormDescriptions == {Str(<<>>), Str(<<" ">>), Str(<<"r", " ">>), Str(<<"r", "f">>)}
FormUsers == {None, Str(<<>>), Str(<<"u", " ">>)}
FormLatitudes ==
  {None, Str(<<>>), Str(<<" ">>), Str(<<" ", "0">>), Str(<<"+", "1">>), Str(<<"9", "0">>), Str(<<"9", "1">>),
   Str(<<"-", "9", "0">>), Str(<<"-", "9", "1">>), Str(<<"x">>), Str(<<"n", "a", "n">>)}
FormLongitudes ==
  {None, Str(<<"9", "1">>), Str(<<"1", "8", "0">>), Str(<<"1", "8", "1">>), Str(<<"-", "1", "8", "0">>),
   Str(<<"-", "1", "8", "1">>), Str(<<"1", "x">>), Str(<<"-">>)}
FormImages == {Unreadable} \cup {Bytes(i) : i \in {"empty", "roadpic", "fullpic", "hugepic"}}

\* The requests of one behaviour are drawn from one family: the valid request and those that
\* differ from it in their strings, in their coordinates, or in their image
EndpointFamilies == {"strings", "latitudes", "longitudes", "images"}

RequestsOf(f) ==
  LET zero == Str(<<"0">>) IN
  {Report(Id, Str(<<"r">>), User, zero, zero, None)} \cup
  CASE f = "strings" -> {Report(x, Str(<<"r">>), User, zero, zero, None) : x \in FormIds}
                          \cup {Report(Id, x, User, zero, zero, None) : x \in FormDescriptions}
                          \cup {Report(Id, Str(<<"r">>), x, zero, zero, None) : x \in FormUsers}
    [] f = "latitudes" -> {Report(Id, Str(<<"r">>), User, x, zero, None) : x \in FormLatitudes}
    [] f = "longitudes" -> {Report(Id, Str(<<"r">>), User, zero, x, None) : x \in FormLongitudes}
                             \cup {Report(Id, Str(<<"r">>), User, Str(<<"9", "1">>), Str(<<"1", "8", "1">>), None)}
    [] f = "images" -> {Report(Id, Str(<<"r">>), User, zero, zero, x) : x \in FormImages}

Requests == UNION {RequestsOf(f) : f \in EndpointFamilies}

\* submit_report, lines 94-234: the request is refused with the HTTPException, or its report_data is passed
\* to classify_report; when the import of line 18 failed, classify_report is None and the call raises
SubmitRequest(w) ==
  /\ pc[w] = "idle"
  /\ nsub < MaxReports
  /\ nsub' = nsub + 1
  /\ \E form \in RequestsOf(family) : \E available \in BOOLEAN :
       LET got == ReportData(form) IN
       IF got[1] = "422"
       THEN /\ responses' = Append(responses, [call |-> nsub + 1, report |-> form, result |-> HttpError])
            /\ UNCHANGED <<pc, report, call>>
       ELSE IF ~available
       THEN /\ responses' = Append(responses, [call |-> nsub + 1, report |-> form, result |-> ErrorResult(form)])
            /\ UNCHANGED <<pc, report, call>>
       ELSE /\ report' = [report EXCEPT ![w] = got[2]]
            /\ call' = [call EXCEPT ![w] = nsub + 1]
            /\ Goto(w, "description")
            /\ UNCHANGED responses
  /\ UNCHANGED <<family, ledger, category, confidence, result, log>>

InitEndpoint ==
  /\ family \in EndpointFamilies
  /\ ledger = <<>>
  /\ pc = [w \in Workers |-> "idle"]
  /\ report = [w \in Workers |-> EmptyDict]
  /\ call = [w \in Workers |-> 0]
  /\ category = [w \in Workers |-> None]
  /\ confidence = [w \in Workers |-> 0]
  /\ result = [w \in Workers |-> EmptyDict]
  /\ log = [w \in Workers |-> <<>>]
  /\ nsub = 0
  /\ responses = <<>>

\* the endpoint: every call of classify_report is made by submit_report
NextEndpoint ==
  \/ SubmitRequest(1)
  \/ CheckDescription(1)
  \/ DetectCategory(1)
  \/ CheckAbuse(1)
  \/ CheckTextDuplicate(1)
  \/ CheckLocationDuplicate(1)
  \/ CheckImageMatch(1)
  \/ CheckImageDuplicate(1)
  \/ DetectUrgency(1)
  \/ ComputeImageHash(1)
  \/ AcceptSave(1)
  \/ RejectSave(1)
  \/ Return(1)

SpecEndpoint == InitEndpoint /\ [][NextEndpoint]_vars


(***************************************************************************)
(* Properties.                                                             *)
(***************************************************************************)
IsPrefix(s, t) == Len(s) <= Len(t) /\ SubSeq(t, 1, Len(s)) = s

Accepted(res) == res["status"] = Word("accepted") /\ res["accept"] = Bool(TRUE)
Rejected(res) == res["status"] = Word("rejected") /\ res["accept"] = Bool(FALSE)

\* the pieces of the file written by call n
EntriesOf(n) == {i \in DOMAIN ledger : ledger[i].by = n}

\* the checks of a call that has not yet returned are over, and it rejects
Rejecting(w) == pc[w] \in {"reject", "return"} /\ Rejected(result[w])

\* C1: a report submitted again after it was accepted, by the same user with the
\* same description and the same inferred category, is rejected as a text duplicate.
C1_Resubmission ==
  \A i \in DOMAIN responses : \A j \in DOMAIN responses :
    (  i < j
    /\ Accepted(responses[i].result)
    /\ responses[j].report["user_id"] = responses[i].report["user_id"]
    /\ responses[j].report["description"] = responses[i].report["description"]
    /\ responses[j].result["category"] = responses[i].result["category"])
    => (Rejected(responses[j].result) /\ responses[j].result["reason"] = ReasonTextDup)

\* C2: on every ledger, each of the three duplicate predicates gives for every report
\* what it gives on the ledger without its rejected entries, and a report rejected as
\* a duplicate is a duplicate on the ledger without its rejected entries.
WithoutRejected(file) == SelectSeq(file, LAMBDA p : Get(p.rec, "status") # Word("rejected"))

\* what the three predicates give for a report on a file that is read without error
Precedents(rep, file) ==
  LET description == DescriptionOf(rep)
      cat == detect_category(Val(description))[1] IN
  <<is_duplicate(UserIdOf(rep), description, cat, file, FALSE),
    /\ Get(rep, "latitude") # None
    /\ Get(rep, "longitude") # None
    /\ is_duplicate_location(Get(rep, "latitude"), Get(rep, "longitude"), description, cat, 10, file, FALSE),
    is_duplicate_image_from_bytes(Get(rep, "image_bytes"), 0, file, FALSE)>>

C2_RejectedNoPrecedent ==
  /\ pc[1] = "idle" =>
       \A rep \in ReportsOf(family) : Precedents(rep, ledger) = Precedents(rep, WithoutRejected(ledger))
  /\ pc[1] = "reject" =>
       /\ result[1]["reason"] = ReasonTextDup =>
            is_duplicate(UserIdOf(report[1]), DescriptionOf(report[1]), category[1], WithoutRejected(ledger), FALSE)
       /\ result[1]["reason"] = ReasonLocationDup =>
            is_duplicate_location(Get(report[1], "latitude"), Get(report[1], "longitude"), DescriptionOf(report[1]), category[1], 10, WithoutRejected(ledger), FALSE)
       /\ result[1]["reason"] = ReasonImageDup =>
            is_duplicate_image_from_bytes(Get(report[1], "image_bytes"), 0, WithoutRejected(ledger), FALSE)

\* a rejected entry of the ledger has the user, description and category, or the
\* place and category, or the image hash of a report that is no duplicate
C2_Witness ==
  /\ pc[1] = "idle"
  /\ \E i \in DOMAIN ledger :
       LET rec == ledger[i].rec IN
       /\ Get(rec, "status") = Word("rejected")
       /\ \/ /\ Get(rec, "category") = RoadTraffic
             /\ Get(rec, "user_id") = User
             /\ IsStr(Get(rec, "description"))
             /\ ~is_duplicate(User, Str(Strip(Val(Get(rec, "description")))), RoadTraffic, ledger, FALSE)
          \/ /\ Get(rec, "category") = RoadTraffic
             /\ IsNum(Get(rec, "latitude"))
             /\ ~is_duplicate_location(Get(rec, "latitude"), Get(rec, "longitude"), EmptyStr, RoadTraffic, 10, ledger, FALSE)
          \/ /\ Get(rec, "image_hash") = Str(HexStr(phash("roadpic")))
             /\ ~is_duplicate_image_from_bytes(Bytes("roadpic"), 0, ledger, FALSE)

\* C3: the ledger is append-only: every step leaves the content it finds as a prefix
\* of the content it leaves.
C3_AppendOnly == [][IsPrefix(ledger, ledger')]_vars

C3_Witness ==
  /\ Len(ledger) = MaxReports
  /\ \E i \in DOMAIN ledger : Accepted(ledger[i].rec)
  /\ \E i \in DOMAIN ledger : Rejected(ledger[i].rec)

\* C4: every call that has returned appended exactly one entry to the ledger.
C4_ExactlyOneEntry ==
  \A i \in DOMAIN responses : Cardinality(EntriesOf(responses[i].call)) = 1

\* C5: when the response of a call is returned, the ledger holds the entry of the call
\* with the outcome of the response.
C5_EntryBeforeResponse ==
  \A i \in DOMAIN responses :
    \E k \in EntriesOf(responses[i].call) :
      /\ ledger[k].rec["status"] = responses[i].result["status"]
      /\ ledger[k].rec["reason"] = responses[i].result["reason"]

Order == <<"category", "abuse", "textdup", "locdup", "imgmatch", "imgdup", "urgency">>
Position(check) == CHOOSE k \in DOMAIN Order : Order[k] = check

ReasonsOf(check) ==
  CASE check = "category" -> {ReasonUndetermined, ReasonCategoryError}
    [] check = "abuse" -> {ReasonAbusive, ReasonProcessing}
    [] check = "textdup" -> {ReasonTextDup}
    [] check = "locdup" -> {ReasonLocationDup}
    [] check = "imgmatch" -> {ReasonMismatch}
    [] check = "imgdup" -> {ReasonImageDup}
    [] check = "urgency" -> {ReasonProcessing}

\* the rejection condition of a check for the report of worker w, on the ledger as it
\* is; io says that the check's read of the ledger fails
Holds(check, w, io) ==
  LET rep == report[w]
      description == DescriptionOf(rep)
      image_bytes == Get(rep, "image_bytes")
      got == detect_category(Val(description)) IN
  CASE check = "category" -> got[1] = Other \/ got[2] < CATEGORY_CONFIDENCE_THRESHOLD
    [] check = "abuse" -> is_abusive(Val(description))
    [] check = "textdup" -> is_duplicate(UserIdOf(rep), description, got[1], ledger, io)
    [] check = "locdup" -> /\ Get(rep, "latitude") # None
                           /\ Get(rep, "longitude") # None
                           /\ is_duplicate_location(Get(rep, "latitude"), Get(rep, "longitude"), description, got[1], 10, ledger, io)
    [] check = "imgmatch" -> Truthy(image_bytes) /\ ~image_matches_category_from_bytes(image_bytes, got[1])
    [] check = "imgdup" -> Truthy(image_bytes) /\ is_duplicate_image_from_bytes(image_bytes, 0, ledger, io)
    [] check = "urgency" -> FALSE

\* whether the read of the ledger failed when the check ran in the call of worker w
ReadFailed(check, w) == \E i \in DOMAIN log[w] : log[w][i].check = check /\ log[w][i].io

C7_FixedOrder ==
  \A w \in Workers :
    LET l == log[w] IN
    /\ \A i \in DOMAIN l : \A j \in DOMAIN l : i < j => Position(l[i].check) < Position(l[j].check)
    /\ \A i \in DOMAIN l : i < Len(l) => l[i].out = "pass"
    /\ (pc[w] \notin {"idle", "return"}) => EntriesOf(call[w]) = {}
    /\ (pc[w] = "reject" /\ l # <<>>) =>
         /\ l[Len(l)].out \in {"reject", "raise"}
         /\ result[w]["reason"] \in ReasonsOf(l[Len(l)].check)
         /\ l[Len(l)].out = "reject" => Holds(l[Len(l)].check, w, FALSE)
         /\ \A k \in DOMAIN Order :
              k < Position(l[Len(l)].check) => ~Holds(Order[k], w, ReadFailed(Order[k], w))
    /\ pc[w] = "accept" =>
         /\ l # <<>>
         /\ l[Len(l)].check = "urgency"
         /\ l[Len(l)].out = "pass"
         /\ \A k \in DOMAIN Order : ~Holds(Order[k], w, ReadFailed(Order[k], w))

\* a report that is abusive, repeats the place of an accepted report and carries an
\* image that does not match is rejected for the abuse
C7_Witness ==
  /\ pc[1] = "reject"
  /\ result[1]["reason"] = ReasonAbusive
  /\ Holds("locdup", 1, FALSE)
  /\ Holds("imgmatch", 1, FALSE)

\* C8: the image duplicate check of a call runs only after its image match check
\* returned true; a report whose image does not match its category is rejected for the
\* mismatch, and no image duplicate check runs for it.
C8_MatchBeforeDuplicate ==
  \A w \in Workers :
    LET l == log[w] IN
    /\ \A j \in DOMAIN l :
         l[j].check = "imgdup" => \E i \in DOMAIN l : i < j /\ l[i].check = "imgmatch" /\ l[i].out = "pass"
    /\ \A i \in DOMAIN l :
         (l[i].check = "imgmatch" /\ ~image_matches_category_from_bytes(Get(report[w], "image_bytes"), category[w])) =>
           /\ l[i].out = "reject"
           /\ i = Len(l)
           /\ Rejecting(w)
           /\ result[w]["reason"] = ReasonMismatch

C8_Witness ==
  /\ pc[1] = "return"
  /\ result[1]["reason"] = ReasonMismatch
  /\ \A i \in DOMAIN log[1] : log[1][i].check # "imgdup"

\* C9: a report for which the classifier returns "Other", or a confidence below the
\* threshold, is rejected with the reason of the undetermined category; no accepted
\* response and no accepted entry of the ledger has category "Other" or a confidence
\* below the threshold.
C9_Undetermined ==
  /\ \A w \in Workers :
       (category[w] # None /\ (category[w] = Other \/ confidence[w] < CATEGORY_CONFIDENCE_THRESHOLD)) =>
         (Rejecting(w) /\ result[w]["reason"] = ReasonUndetermined /\ log[w] = <<Ran("category", "reject", FALSE)>>)
  /\ \A i \in DOMAIN responses :
       Accepted(responses[i].result) =>
         (responses[i].result["category"] # Other /\ Val(responses[i].result["confidence"]) >= CATEGORY_CONFIDENCE_THRESHOLD)
  /\ \A i \in DOMAIN ledger :
       IsAcceptedRecord(ledger[i].rec) =>
         (ledger[i].rec["category"] # Other /\ Val(ledger[i].rec["confidence"]) >= CATEGORY_CONFIDENCE_THRESHOLD)

\* both cases answered: "Other" with a high confidence, and a category with a confidence below the threshold
C9_Witness ==
  /\ \E i \in DOMAIN responses :
       /\ responses[i].result["category"] = Other
       /\ Val(responses[i].result["confidence"]) >= CATEGORY_CONFIDENCE_THRESHOLD
       /\ responses[i].result["reason"] = ReasonUndetermined
  /\ \E i \in DOMAIN responses :
       /\ responses[i].result["category"] # Other
       /\ detect_category(Val(DescriptionOf(responses[i].report)))[2] < CATEGORY_CONFIDENCE_THRESHOLD
       /\ responses[i].result["reason"] = ReasonUndetermined

\* C10: a report whose description is missing, empty or white space is rejected with
\* the reason that the description is required and confidence 0, and no check runs
\* for it.
Blank(rep) ==
  \/ rep["description"] \in {Absent, None}
  \/ IsStr(rep["description"]) /\ \A i \in DOMAIN Val(rep["description"]) : IsSpace(Val(rep["description"])[i])

DescriptionRequired(res) ==
  /\ Rejected(res)
  /\ res["reason"] = ReasonDescription
  /\ res["confidence"] = Num(0)

C10_DescriptionRequired ==
  /\ \A w \in Workers :
       (pc[w] \notin {"idle", "description"} /\ Blank(report[w])) =>
          (Rejecting(w) /\ DescriptionRequired(result[w]) /\ log[w] = <<>>)
  /\ \A i \in DOMAIN responses :
       Blank(responses[i].report) => DescriptionRequired(responses[i].result)

\* the descriptions that are missing, None, empty and blank have all been answered
C10_Witness ==
  \E i \in DOMAIN responses : \E j \in DOMAIN responses :
    /\ responses[i].report["description"] = Str(<<" ">>)
    /\ responses[j].report["description"] \in {Absent, None, Str(<<>>)}
    /\ DescriptionRequired(responses[i].result)
    /\ DescriptionRequired(responses[j].result)

\* C11: a report whose description the abuse filter finds abusive, and whose category
\* is recognized with a confidence of at least the threshold, is rejected for abusive
\* language whatever the ledger holds and whatever else it carries; it is never
\* accepted and never rejected as a duplicate.
Recognized(rep) ==
  LET got == detect_category(Val(DescriptionOf(rep))) IN
  Truthy(DescriptionOf(rep)) /\ ~CategoryUndetermined(got[1], got[2])

Abusive(rep) == Truthy(DescriptionOf(rep)) /\ is_abusive(Val(DescriptionOf(rep)))

DuplicateReasons == {ReasonTextDup, ReasonLocationDup, ReasonImageDup}

C11_AbusiveRejected ==
  /\ \A w \in Workers : \A i \in DOMAIN log[w] :
       (log[w][i].check = "abuse" /\ log[w][i].out # "raise" /\ Abusive(report[w])) =>
         /\ log[w][i].out = "reject"
         /\ i = Len(log[w])
         /\ Rejecting(w)
         /\ result[w]["reason"] = ReasonAbusive
  /\ \A i \in DOMAIN responses :
       (Abusive(responses[i].report) /\ Recognized(responses[i].report)) =>
         /\ Rejected(responses[i].result)
         /\ responses[i].result["reason"] \notin DuplicateReasons
         /\ responses[i].result["reason"] \in {ReasonAbusive, ReasonCategoryError, ReasonProcessing}

\* an abusive report with coordinates and an image, submitted after a report of the
\* same place and the same image was accepted, is answered with the abuse reason
C11_Witness ==
  \E i \in DOMAIN responses : \E j \in DOMAIN responses :
    /\ i < j
    /\ Accepted(responses[i].result)
    /\ Abusive(responses[j].report)
    /\ responses[j].report["latitude"] = responses[i].report["latitude"]
    /\ responses[j].report["latitude"] # None
    /\ responses[j].report["image_bytes"] = responses[i].report["image_bytes"]
    /\ IsBytes(responses[j].report["image_bytes"])
    /\ responses[j].result["reason"] = ReasonAbusive

\* C12: a report with a description that is not abusive and has a recognized category,
\* with a user_id, with coordinates and without an image, is answered "accepted" in
\* whatever state the ledger is.
CleanCase(rep) ==
  /\ Recognized(rep)
  /\ ~Abusive(rep)
  /\ IsStr(rep["user_id"])
  /\ IsNum(rep["latitude"])
  /\ IsNum(rep["longitude"])
  /\ ~Truthy(Get(rep, "image_bytes"))

NothingRaised(w) == \A i \in DOMAIN log[w] : log[w][i].out # "raise"

NoPrecedent(w) ==
  /\ ~Holds("textdup", w, ReadFailed("textdup", w))
  /\ ~Holds("locdup", w, ReadFailed("locdup", w))

HasCoordinates(rep) == IsNum(rep["latitude"]) /\ IsNum(rep["longitude"])

Metres(a, b) == haversine(Val(a["latitude"]), Val(a["longitude"]), Val(b["latitude"]), Val(b["longitude"]))

PassedToLocation(res) ==
  res["reason"] \notin {ReasonDescription, ReasonCategoryError, ReasonUndetermined, ReasonAbusive, ReasonProcessing, ReasonTextDup}

C13_LocationDuplicate ==
  /\ \A i \in DOMAIN responses : \A j \in DOMAIN responses :
       (  i < j
       /\ Accepted(responses[i].result)
       /\ HasCoordinates(responses[i].report)
       /\ HasCoordinates(responses[j].report)
       /\ responses[j].result["category"] = responses[i].result["category"]
       /\ PassedToLocation(responses[j].result)
       /\ Metres(responses[i].report, responses[j].report) <= 10)
       => (Rejected(responses[j].result) /\ responses[j].result["reason"] = ReasonLocationDup)
  /\ \A j \in DOMAIN responses :
       responses[j].result["reason"] = ReasonLocationDup =>
         \E i \in DOMAIN responses :
           /\ i < j
           /\ Accepted(responses[i].result)
           /\ HasCoordinates(responses[i].report)
           /\ responses[j].result["category"] = responses[i].result["category"]
           /\ Metres(responses[i].report, responses[j].report) < 11

\* C14: of two reports with the same image bytes, submitted one after the other, the
\* first accepted and the second reaching the image duplicate check, the second is
\* rejected as an image duplicate; a report is rejected as an image duplicate only when
\* the hash of an accepted entry equals the hash of its image in every bit.
RECURSIVE Hamming(_, _)
Hamming(a, b) ==
  IF a = 0 /\ b = 0 THEN 0
  ELSE (IF a % 2 = b % 2 THEN 0 ELSE 1) + Hamming(a \div 2, b \div 2)

PassedToImageDuplicate(res) ==
  PassedToLocation(res) /\ res["reason"] \notin {ReasonLocationDup, ReasonMismatch, ReasonImageError}

C14_ImageDuplicate ==
  /\ \A i \in DOMAIN responses : \A j \in DOMAIN responses :
       (  i < j
       /\ Accepted(responses[i].result)
       /\ IsBytes(responses[i].report["image_bytes"])
       /\ Decodable(Val(responses[i].report["image_bytes"]))
       /\ responses[j].report["image_bytes"] = responses[i].report["image_bytes"]
       /\ PassedToImageDuplicate(responses[j].result))
       => (Rejected(responses[j].result) /\ responses[j].result["reason"] = ReasonImageDup)
  /\ \A j \in DOMAIN responses :
       responses[j].result["reason"] = ReasonImageDup =>
         \E k \in DOMAIN ledger :
           /\ IsAcceptedRecord(ledger[k].rec)
           /\ ledger[k].by # responses[j].call
           /\ StoredHashInt(Get(ledger[k].rec, "image_hash")) >= 0
           /\ Hamming(StoredHashInt(Get(ledger[k].rec, "image_hash")), phash(Val(responses[j].report["image_bytes"]))) = 0

\* C15: for every threshold t, the image duplicate predicate is true exactly when some
\* accepted entry of the ledger has an image_hash at a Hamming distance of at most t
\* from the hash of the image; entries without image_hash are skipped.
WithinHamming(image, t, file) ==
  \E k \in DOMAIN file :
    /\ file[k].part = "whole"
    /\ IsAcceptedRecord(file[k].rec)
    /\ Get(file[k].rec, "image_hash") # None
    /\ StoredHashInt(Get(file[k].rec, "image_hash")) >= 0
    /\ Hamming(StoredHashInt(Get(file[k].rec, "image_hash")), phash(image)) <= t

C15_AnyThreshold ==
  pc[1] = "idle" =>
    \A t \in 0..MaxThreshold : \A image \in {"roadpic", "roadpic2"} :
      is_duplicate_image_from_bytes(Bytes(image), t, ledger, FALSE) = WithinHamming(image, t, ledger)

(***************************************************************************)
(* C16: the matcher never rejects on uncertainty.  Whenever the label of   *)
(* the image is missing, empty, "other" or another generic label, and      *)
(* whenever the category has neither allowed labels nor keywords, the      *)
(* matcher answers true: the check "imgmatch" of the call passes, and the  *)
(* decision is true for every such label and category.                     *)
(***************************************************************************)
Categories == {Other, RoadTraffic, StreetLighting, Noise}

Labels ==
  {None, Str(<<>>), Str(<<" ">>), Str(<<"c", "a", "t">>), Str(<<"r", "o", "a", "d">>), Str(<<" ", "A", "r", "e", "a">>)}
    \cup {Str(g) : g \in GENERIC_IMAGE_LABELS}

HasVocabulary(cat) == IMAGE_TO_CATEGORY_MAP(Val(cat)[1]) # {} \/ CATEGORY_KEYWORDS(Val(cat)[1]) # {}

UncertainLabel(label) ==
  \/ ~Truthy(label)
  \/ Strip(Lower(Val(label))) = <<>>
  \/ Strip(Lower(Val(label))) \in GENERIC_IMAGE_LABELS

LabelOf(rep) == classify_image_from_bytes(Val(Get(rep, "image_bytes")))

Uncertain(rep, cat) ==
  /\ Truthy(Get(rep, "image_bytes"))
  /\ LabelOf(rep)[1] = "ok"
  /\ UncertainLabel(LabelOf(rep)[2]) \/ ~HasVocabulary(cat)

C16_UncertainMatches ==
  /\ \A i \in DOMAIN log[1] :
       log[1][i].check = "imgmatch" /\ Uncertain(report[1], category[1]) => log[1][i].out = "pass"
  /\ pc[1] = "imgdup" =>
       \A cat \in Categories : \A label \in Labels :
         UncertainLabel(label) \/ ~HasVocabulary(cat) => LabelMatches(label, cat)

\* a report with a generic label was accepted, and a label outside the vocabulary passes for a category without one
C16_Witness ==
  /\ pc[1] = "imgdup"
  /\ Uncertain(report[1], category[1])
  /\ ~UncertainLabel(LabelOf(report[1])[2])
  /\ ~HasVocabulary(category[1])
  /\ \E i \in DOMAIN log[1] : log[1][i].check = "imgmatch" /\ log[1][i].out = "pass"
  /\ \E j \in DOMAIN responses :
       /\ Accepted(responses[j].result)
       /\ Uncertain(responses[j].report, Get(responses[j].result, "category"))
       /\ UncertainLabel(LabelOf(responses[j].report)[2])
       /\ HasVocabulary(Get(responses[j].result, "category"))

(***************************************************************************)
(* C17: a technical failure on the image never rejects the report.  When   *)
(* the image classifier raises, the match check passes; when the image     *)
(* cannot be decoded or hashed, the duplicate check passes; after both     *)
(* the call is at the urgency step, and no response to such a report       *)
(* carries a reason of the image checks.                                   *)
(***************************************************************************)
LabelingFails(rep) == Truthy(Get(rep, "image_bytes")) /\ LabelOf(rep)[1] = "raise"

HashingFails(rep) == Truthy(Get(rep, "image_bytes")) /\ ~Decodable(Val(Get(rep, "image_bytes")))

ImageReasons == {ReasonMismatch, ReasonImageDup}

Escaped(res) == Get(res, "reason") = ReasonProcessing

C18_ErrorOutcome ==
  \A j \in DOMAIN responses :
    Escaped(responses[j].result) =>
      /\ Get(responses[j].result, "status") = Word("error")
      /\ Get(responses[j].result, "accept") = Bool(FALSE)
      /\ Get(responses[j].result, "category") = Other
      /\ Get(responses[j].result, "confidence") = Num(0)

(***************************************************************************)
(* C19: every call of classify_report returns a result, whichever of its   *)
(* sub-checks fail, each of them returning or raising.  No exception       *)
(* leaves the call, each step brings it nearer to its return (so it        *)
(* returns within Rank("return") steps), the step after "return" hands a   *)
(* response to the caller, and every response is an accepted or a          *)
(* rejected result.                                                        *)
(***************************************************************************)
Rank(label) ==
  CASE label = "description" -> 1
    [] label = "category" -> 2
    [] label = "abuse" -> 3
    [] label = "textdup" -> 4
    [] label = "locdup" -> 5
    [] label = "imgmatch" -> 6
    [] label = "imgdup" -> 7
    [] label = "urgency" -> 8
    [] label = "hash" -> 9
    [] label = "accept" -> 10
    [] label = "reject" -> 10
    [] label = "return" -> 11
    [] OTHER -> 0

\* the call is at a statement of classify_report or has returned: no exception has left it
NoEscape == pc[1] = "idle" \/ Rank(pc[1]) > 0

Nearer ==
  pc[1] # "idle" =>
    \/ Rank(pc[1]) < Rank(pc'[1])
    \/ pc[1] = "return" /\ pc'[1] = "idle" /\ Len(responses') = Len(responses) + 1

OutcomeKinds == \A j \in DOMAIN responses : Accepted(responses[j].result) \/ Rejected(responses[j].result)

C19_AlwaysReturns == [](NoEscape /\ OutcomeKinds) /\ [][Nearer]_vars

\* one call ended by an escaped exception has returned, and a call whose ledger read
\* and image labeling failed is about to return
C19_Witness ==
  /\ pc[1] = "return"
  /\ LabelingFails(report[1])
  /\ \E i \in DOMAIN log[1] : log[1][i].io
  /\ \E j \in DOMAIN responses : Escaped(responses[j].result)

(***************************************************************************)
(* C20: a line of the ledger that is no record (blank, no JSON, or JSON    *)
(* that is no object) is skipped without effect on the other lines: the    *)
(* accepted entries the duplicate checks compare against are the           *)
(* well-formed accepted records of the file.                               *)
(***************************************************************************)
WellFormedAccepted(file) ==
  {json_loads(Lines(file)[i]) : i \in {k \in DOMAIN Lines(file) :
      /\ IsRecordLine(Lines(file)[k])
      /\ Get(json_loads(Lines(file)[k]), "status") = Word("accepted")
      /\ Get(json_loads(Lines(file)[k]), "accept") = Bool(TRUE)}}

C20_CorruptSkipped ==
  pc[1] = "idle" => SeqToSet(_load_accepted_reports(ledger, FALSE)) = WellFormedAccepted(ledger)

(***************************************************************************)
(* C21: no ledger entry holds the raw image bytes.  The record that        *)
(* classify_report or reject hands to save_report has no image_bytes key,  *)
(* and no line of the file has one, for accepted and rejected outcomes     *)
(* alike.                                                                  *)
(***************************************************************************)
C21_NoImageBytes ==
  /\ \A k \in DOMAIN ledger : ledger[k].rec["image_bytes"] = Absent
  /\ pc[1] \in {"accept", "reject"} => ReportForSave(report[1], result[1])["image_bytes"] = Absent

\* an accepted and a rejected report, both submitted with an image, have their entries in the file
C21_Witness ==
  \E i, j \in DOMAIN responses :
    /\ Accepted(responses[i].result)
    /\ Rejected(responses[j].result)
    /\ Truthy(Get(responses[i].report, "image_bytes"))
    /\ Truthy(Get(responses[j].report, "image_bytes"))
    /\ \E k \in DOMAIN ledger : ledger[k].by = responses[i].call /\ Get(ledger[k].rec, "status") = Word("accepted")
    /\ \E k \in DOMAIN ledger : ledger[k].by = responses[j].call /\ Get(ledger[k].rec, "status") = Word("rejected")

(***************************************************************************)
(* C22: every rejection has a cause in the content of the report: an       *)
(* empty description, an undetermined category, abusive text, a duplicate  *)
(* or a mismatching image.  No rejection answers a technical failure of a  *)
(* sub-check.                                                              *)
(***************************************************************************)
ContentReasons ==
  {ReasonDescription, ReasonUndetermined, ReasonAbusive, ReasonTextDup, ReasonLocationDup, ReasonImageDup, ReasonMismatch}

C22_OnlyContentRejections ==
  \A j \in DOMAIN responses :
    Rejected(responses[j].result) => Get(responses[j].result, "reason") \in ContentReasons

(***************************************************************************)
(* C23: the text-duplicate predicate compares user ids and descriptions    *)
(* after lower-casing and collapsing whitespace: it is true exactly when   *)
(* some accepted entry of the scan has the same normalized user id, the    *)
(* same normalized description and the same category as the candidate.     *)
(***************************************************************************)
\* lower-case, runs of whitespace collapsed
Normalized(v) == Join(Split(Lower(Val(v))))

SameText(rep, entry) ==
  /\ Normalized(OrElse(Get(entry, "user_id"), Anon)) = Normalized(OrElse(UserIdOf(rep), Anon))
  /\ Normalized(OrElse(Get(entry, "description"), EmptyStr)) = Normalized(DescriptionOf(rep))
  /\ Get(entry, "category") = detect_category(Val(DescriptionOf(rep)))[1]

C23_NormalizedTextDuplicate ==
  pc[1] = "idle" =>
    \A rep \in ReportsOf(family) :
      LET entries == _load_accepted_reports(ledger, FALSE) IN
      is_duplicate(UserIdOf(rep), DescriptionOf(rep), detect_category(Val(DescriptionOf(rep)))[1], ledger, FALSE)
        = (\E k \in DOMAIN entries : SameText(rep, entries[k]))

(***************************************************************************)
(* C24: the location comparison needs both coordinates on both sides.      *)
(* The location check of a call runs exactly when the report has latitude  *)
(* and longitude, 0 included; it rejects only when an accepted entry of    *)
(* an earlier call with the same category has both coordinates and lies    *)
(* within 10 metres, and it does reject then, 0 included, when the scan    *)
(* of the file completes; a report without both coordinates is never       *)
(* rejected as a location duplicate.                                       *)
(***************************************************************************)
BothPresent(rec) == Get(rec, "latitude") # None /\ Get(rec, "longitude") # None

NearEntry(rep, cat, n, file) ==
  \E k \in DOMAIN file :
    /\ file[k].part = "whole"
    /\ file[k].by # n
    /\ IsAcceptedRecord(file[k].rec)
    /\ Get(file[k].rec, "category") = cat
    /\ BothPresent(file[k].rec)
    /\ HasCoordinates(rep) /\ HasCoordinates(file[k].rec)
    /\ Metres(rep, file[k].rec) <= 10

\* the scan of the location check of the report, on a file that is read
LocationScanOf(rep, cat, file) ==
  LocationScan(_load_accepted_reports(file, FALSE), Get(rep, "latitude"), Get(rep, "longitude"), Lower(Val(cat)), 10)

C24_BothCoordinates ==
  /\ pc[1] # "return" =>
       \A i \in DOMAIN log[1] :
         log[1][i].check = "locdup" =>
           /\ BothPresent(report[1])
           /\ log[1][i].out = "reject" => NearEntry(report[1], category[1], call[1], ledger)
           /\ ~log[1][i].io /\ LocationScanOf(report[1], category[1], ledger) # "raise" /\ NearEntry(report[1], category[1], call[1], ledger)
                => log[1][i].out = "reject"
  /\ pc[1] \in {"imgmatch", "imgdup", "urgency", "hash", "accept"} /\ BothPresent(report[1])
       => \E i \in DOMAIN log[1] : log[1][i].check = "locdup"
  /\ \A j \in DOMAIN responses :
       Get(responses[j].result, "reason") = ReasonLocationDup => BothPresent(responses[j].report)

\* an entry with one coordinate was accepted and a report at latitude 0, longitude 0 passes the
\* location check over it
C24_Witness ==
  /\ pc[1] = "imgmatch"
  /\ Get(report[1], "latitude") = Num(0)
  /\ Get(report[1], "longitude") = Num(0)
  /\ \E i \in DOMAIN log[1] : log[1][i].check = "locdup" /\ log[1][i].out = "pass" /\ ~log[1][i].io
  /\ \E k \in DOMAIN ledger :
       /\ IsAcceptedRecord(ledger[k].rec)
       /\ Get(ledger[k].rec, "category") = category[1]
       /\ Get(ledger[k].rec, "latitude") = Num(0)
       /\ Get(ledger[k].rec, "longitude") = None

(***************************************************************************)
(* C25: for every content of the ledger, the location-duplicate predicate  *)
(* is true exactly when some accepted entry of the scan has the category   *)
(* of the candidate, letter case aside, and lies within the threshold; an  *)
(* entry with unusable coordinates hides no other entry.                   *)
(***************************************************************************)
Usable(rec) == IsNum(Get(rec, "latitude")) /\ IsNum(Get(rec, "longitude"))

WithinThreshold(rep, cat, threshold, entries) ==
  \E k \in DOMAIN entries :
    /\ IsStr(Get(entries[k], "category"))
    /\ Lower(Val(Get(entries[k], "category"))) = Lower(Val(cat))
    /\ Usable(entries[k])
    /\ Metres(rep, entries[k]) <= threshold

C25_LocationScanComplete ==
  pc[1] = "idle" =>
    \A rep \in {r \in ReportsOf(family) : Usable(r)} :
      LET cat == detect_category(Val(DescriptionOf(rep)))[1] IN
      is_duplicate_location(Get(rep, "latitude"), Get(rep, "longitude"), DescriptionOf(rep), cat, 10, ledger, FALSE)
        = WithinThreshold(rep, cat, 10, _load_accepted_reports(ledger, FALSE))

(***************************************************************************)
(* C26: a failure inside the text or the location duplicate check counts   *)
(* as "not duplicate".  When reading the file raises, when a line of the   *)
(* file makes the scan raise, or when a coordinate of the report or of a   *)
(* stored entry is no number, the check passes and the call goes on to     *)
(* the checks that follow.                                                 *)
(***************************************************************************)
TextScanOf(rep, cat, file) ==
  TextScan(_load_accepted_reports(file, FALSE), Lower(Val(OrElse(UserIdOf(rep), Anon))), NormalizeDescription(Val(DescriptionOf(rep))), Lower(Val(cat)))

FailureIn(entry, rep, cat, file) ==
  \/ entry.io
  \/ ScanRaises(Lines(file))
  \/ entry.check = "textdup" /\ TextScanOf(rep, cat, file) = "raise"
  \/ entry.check = "locdup" /\ LocationScanOf(rep, cat, file) = "raise"

C26_DuplicateCheckFailOpen ==
  pc[1] # "return" =>
    \A i \in DOMAIN log[1] :
      log[1][i].check \in {"textdup", "locdup"} /\ FailureIn(log[1][i], report[1], category[1], ledger) =>
        /\ log[1][i].out = "pass"
        /\ i = Len(log[1]) => pc[1] # "reject" /\ Rank(pc[1]) > Rank(log[1][i].check)

\* the location check of a report with a malformed latitude has passed over a stored entry with
\* coordinates, after the text check has passed on a failed read of the file
C26_Witness ==
  /\ pc[1] = "imgmatch"
  /\ ~HasCoordinates(report[1])
  /\ \E i \in DOMAIN log[1] : log[1][i].check = "textdup" /\ log[1][i].io /\ log[1][i].out = "pass"
  /\ \E i \in DOMAIN log[1] : log[1][i].check = "locdup" /\ ~log[1][i].io /\ log[1][i].out = "pass"
  /\ LocationScanOf(report[1], category[1], ledger) = "raise"

(***************************************************************************)
(* C27: the matcher answers false exactly when the label is not empty and  *)
(* not generic, the category has a vocabulary, the label is no allowed     *)
(* label, the label and no allowed label or keyword contain one another,   *)
(* the label shares no word with an allowed label, and no word of the      *)
(* label longer than 2 characters contains or is contained in a keyword    *)
(* or an allowed label.                                                    *)
(***************************************************************************)
Tokens(s) == SeqToSet(Split(s))

Mismatch(label, cat) ==
  LET l == IF Truthy(label) THEN Strip(Lower(Val(label))) ELSE <<>>
      allowed == {Lower(a) : a \in IMAGE_TO_CATEGORY_MAP(Val(cat)[1])}
      keywords == {Lower(kw) : kw \in CATEGORY_KEYWORDS(Val(cat)[1])}
  IN
  /\ l # <<>>
  /\ l \notin GENERIC_IMAGE_LABELS
  /\ allowed \cup keywords # {}
  /\ l \notin allowed
  /\ \A v \in allowed \cup keywords : ~Contains(l, v) /\ ~Contains(v, l)
  /\ \A a \in allowed : Tokens(l) \cap Tokens(a) = {}
  /\ \A word \in Tokens(l) : Len(word) > 2 => \A v \in allowed \cup keywords : ~Contains(v, word) /\ ~Contains(word, v)

\* labels that match by a shared word only, by a word inside an allowed label only, by containing
\* an allowed label, and labels whose words are too short or foreign to match
WordLabels == {Str(<<"d", "a", "m", "a", "g", "e", "d", " ", "p", "o", "l", "e">>), Str(<<"a", "b", " ", "r", "o", "a">>), Str(<<"r", "o", " ", "a", "b">>), Str(<<"r", "o", "a", "d", "w", "a", "y">>), Str(<<"b", "i", "g", " ", "c", "a", "t">>)}

C27_FalseOnlyOnMismatch ==
  /\ \A i \in DOMAIN log[1] :
       log[1][i].check = "imgmatch" /\ LabelOf(report[1])[1] = "ok" =>
         ((log[1][i].out = "reject") = Mismatch(LabelOf(report[1])[2], category[1]))
  /\ pc[1] = "imgdup" /\ responses = <<>> =>
       \A cat \in Categories : \A label \in Labels \cup WordLabels :
         LabelMatches(label, cat) = ~Mismatch(label, cat)

\* an image labeled outside the vocabulary of the category was rejected as a mismatch, and an
\* image labeled inside it passes
C27_Witness ==
  /\ pc[1] = "imgdup"
  /\ LabelOf(report[1])[1] = "ok"
  /\ ~Mismatch(LabelOf(report[1])[2], category[1])
  /\ ~UncertainLabel(LabelOf(report[1])[2])
  /\ HasVocabulary(category[1])
  /\ \E j \in DOMAIN responses :
       /\ Get(responses[j].result, "reason") = ReasonMismatch
       /\ Mismatch(LabelOf(responses[j].report)[2], Get(responses[j].result, "category"))

(***************************************************************************)
(* C28: the three duplicate predicates only read the ledger.  The steps    *)
(* of the text, location and image duplicate checks leave the file as it   *)
(* is, whatever they answer, and the file changes only in the final step   *)
(* of a call, where the record of the call is appended.                    *)
(***************************************************************************)
DuplicateChecks == {"textdup", "locdup", "imgdup"}

ChecksReadOnly ==
  /\ pc[1] \in DuplicateChecks => ledger' = ledger
  /\ ledger' # ledger => pc[1] \in {"accept", "reject"} /\ pc'[1] = "return"

C28_PredicatesReadOnly == [][ChecksReadOnly]_vars

\* a report with coordinates and an image was accepted after the three checks found no duplicate,
\* the next one is found to be a duplicate, and the file holds the one entry of the first
C28_Witness ==
  /\ pc[1] = "reject"
  /\ Get(result[1], "reason") \in DuplicateReasons
  /\ Len(responses) = 1
  /\ Accepted(responses[1].result)
  /\ BothPresent(responses[1].report)
  /\ Truthy(Get(responses[1].report, "image_bytes"))
  /\ Len(ledger) = 1
  /\ ledger[1].by = responses[1].call

(***************************************************************************)
(* C29: a duplicate check sees the entries of the requests completed       *)
(* before it began.  With several workers, whenever a worker is about to   *)
(* run a duplicate check, the accepted entries its scan of the file        *)
(* yields include the record of every accepted response already returned.  *)
(***************************************************************************)
Observed(file) == SeqToSet(_load_accepted_reports(file, FALSE))

C29_SeesCompleted ==
  \A w \in Workers :
    pc[w] \in DuplicateChecks =>
      \A j \in DOMAIN responses :
        Accepted(responses[j].result) =>
          ReportForSave(responses[j].report, responses[j].result) \in Observed(ledger)

(***************************************************************************)
(* C30: two identical submissions handled by two workers can both be       *)
(* accepted.  The duplicate checks of a worker and its append are separate *)
(* steps: a step of a duplicate check leaves the file as it is.  Whenever  *)
(* both workers have run their checks and neither has appended, both       *)
(* results are accepted although the record each is about to append makes  *)
(* the report of the other a text, a location and an image duplicate.      *)
(***************************************************************************)
RaceState == ledger = <<>> /\ \A w \in Workers : pc[w] = "accept"

DuplicateOf(rep, rec) == Precedents(rep, <<Piece(rec, "whole", 0)>>) = <<TRUE, TRUE, TRUE>>

BothAccepted ==
  RaceState =>
    \A w \in Workers : \A v \in Workers \ {w} :
      /\ Accepted(result[w])
      /\ DuplicateOf(report[w], ReportForSave(report[v], result[v]))

CheckIsNoAppend == \A w \in Workers : pc[w] \in DuplicateChecks /\ pc'[w] # pc[w] => ledger' = ledger

C30_RaceAcceptsBoth == []BothAccepted /\ [][CheckIsNoAppend]_vars

\* both workers ran every duplicate check on a file that was read, found no duplicate, and have
\* appended: the file ends with two accepted entries that are duplicates of each other
C30_Witness ==
  /\ \A w \in Workers :
       /\ pc[w] = "return"
       /\ Accepted(result[w])
       /\ \A c \in DuplicateChecks : \E i \in DOMAIN log[w] : log[w][i].check = c /\ log[w][i].out = "pass" /\ ~log[w][i].io
  /\ Len(ledger) = 2
  /\ \A k \in DOMAIN ledger : ledger[k].part = "whole" /\ IsAcceptedRecord(ledger[k].rec)
  /\ ledger[1].by # ledger[2].by
  /\ DuplicateOf(report[1], ledger[2].rec)
  /\ DuplicateOf(report[2], ledger[1].rec)

(***************************************************************************)
(* C31: urgency is present only for accepted outcomes.  Every accepted     *)
(* response and every accepted entry of the ledger carries the urgency     *)
(* that the urgency tagger gives for the description, and no rejected      *)
(* response and no rejected entry holds an urgency field, whatever dict    *)
(* the caller passes.                                                      *)
(***************************************************************************)
UrgencyOf(res) == detect_urgency(Val(Get(res, "description")))

C31_UrgencyOnlyAccepted ==
  /\ \A j \in DOMAIN responses :
       /\ Accepted(responses[j].result) => responses[j].result["urgency"] = UrgencyOf(responses[j].result)
       /\ Rejected(responses[j].result) => responses[j].result["urgency"] = Absent
  /\ \A k \in DOMAIN ledger :
       /\ Accepted(ledger[k].rec) => ledger[k].rec["urgency"] = UrgencyOf(ledger[k].rec)
       /\ Rejected(ledger[k].rec) => ledger[k].rec["urgency"] = Absent

(***************************************************************************)
(* C32: an entry written by a call holds an image_hash only if the report  *)
(* of the call carried an image that was hashed in this call, and then it  *)
(* is the hash of that image; the entries of reports without an image and  *)
(* of reports whose image could not be hashed hold none, whatever dict the *)
(* caller passes.                                                          *)
(***************************************************************************)
\* the reports of the calls that wrote to the ledger: those returned and the one under way
ReportsOfCall(n) ==
  {responses[j].report : j \in {i \in DOMAIN responses : responses[i].call = n}}
    \cup {report[w] : w \in {v \in Workers : call[v] = n}}

Hashed(rep) == Truthy(Get(rep, "image_bytes")) /\ Decodable(Val(Get(rep, "image_bytes")))

C32_HashOnlyWhenHashed ==
  \A k \in DOMAIN ledger :
    ledger[k].by # 0 =>
      \A rep \in ReportsOfCall(ledger[k].by) :
        /\ ledger[k].rec["image_hash"] # Absent =>
             /\ Accepted(ledger[k].rec)
             /\ Hashed(rep)
             /\ ledger[k].rec["image_hash"] = Str(HexStr(phash(Val(Get(rep, "image_bytes")))))
        /\ ~Hashed(rep) => ledger[k].rec["image_hash"] = Absent

(***************************************************************************)
(* C33: a request to the submit endpoint with an invalid input (a          *)
(* report_id or description that is empty or blank, a latitude or          *)
(* longitude that is no number or lies outside [-90, 90] or [-180, 180],   *)
(* an image of more than 10 MB or of no bytes) is answered with the        *)
(* validation error; the step that answers it leaves the ledger and the    *)
(* pipeline as they are, and no entry is ever written for it.  A request   *)
(* that is passed on has valid fields, so every entry written through the  *)
(* endpoint has coordinates within the ranges.                             *)
(***************************************************************************)
RECURSIVE NumeralOfNat(_)
NumeralOfNat(n) == IF n < 10 THEN <<HexDigits[n + 1]>> ELSE NumeralOfNat(n \div 10) \o <<HexDigits[(n % 10) + 1]>>

\* the decimal numeral of an integer
Numeral(v) == IF v < 0 THEN <<"-">> \o NumeralOfNat(0 - v) ELSE NumeralOfNat(v)

\* the text, trimmed, is a numeral of v
Denotes(text, v) == Strip(Val(text)) = Numeral(v) \/ (v >= 0 /\ Strip(Val(text)) = <<"+">> \o Numeral(v))

\* a coordinate field that is not filled in, or the numeral of a number of degrees within the limit
ValidCoordinate(text, limit) == text = None \/ text = EmptyStr \/ \E v \in (0 - limit)..limit : Denotes(text, v)

ValidImage(image) == image = None \/ (IsBytes(image) /\ ImageSize(Val(image)) > 0 /\ ImageSize(Val(image)) <= 10 * 1024 * 1024)

ValidInput(form) ==
  /\ Strip(Val(form["report_id"])) # <<>>
  /\ Strip(Val(form["description"])) # <<>>
  /\ ValidCoordinate(form["latitude"], 90)
  /\ ValidCoordinate(form["longitude"], 180)
  /\ ValidImage(form["image_bytes"])

InvalidRequests == {form \in Requests : ~ValidInput(form)}

\* the validation of the endpoint refuses exactly the invalid requests
Refuses == \A form \in Requests : (ReportData(form) = <<"422">>) = (form \in InvalidRequests)

CoordinateWithin(v, limit) == v = None \/ (IsNum(v) /\ Abs(Val(v)) <= limit * MetresPerDegree)

LedgerInRange ==
  \A k \in DOMAIN ledger :
    /\ CoordinateWithin(Get(ledger[k].rec, "latitude"), 90)
    /\ CoordinateWithin(Get(ledger[k].rec, "longitude"), 180)

\* a refused request is invalid, and the ledger holds no entry of its call
RefusedUntouched ==
  \A j \in DOMAIN responses :
    responses[j].result = HttpError => (responses[j].report \in InvalidRequests /\ EntriesOf(responses[j].call) = {})

\* the step in which a request arrives: it is refused, or answered with the error of a pipeline that
\* cannot be called, and nothing else changes; or it is valid and the pipeline starts on its report_data
Arrival ==
  nsub' # nsub =>
    /\ ledger' = ledger
    /\ \/ /\ \E form \in Requests :
               responses' = Append(responses, [call |-> nsub', report |-> form,
                                               result |-> IF form \in InvalidRequests THEN HttpError ELSE ErrorResult(form)])
          /\ pc' = pc /\ report' = report /\ log' = log /\ result' = result
       \/ /\ responses' = responses
          /\ pc'[1] = "description"
          /\ \E form \in Requests \ InvalidRequests : ReportData(form) = <<"ok", report'[1]>>

C33_InvalidRefused == [](LedgerInRange /\ RefusedUntouched /\ (responses = <<>> => Refuses)) /\ [][Arrival]_vars

\* after a request that was passed on and wrote its entry, a request with latitude 91 is refused
C33_Witness ==
  /\ Len(responses) = 2
  /\ Len(ledger) = 1
  /\ ledger[1].by = responses[1].call
  /\ responses[2].result = HttpError
  /\ responses[2].report["latitude"] = Str(<<"9", "1">>)
  /\ pc[1] = "idle"

(***************************************************************************)
(* C34: a report submitted without a user_id is attributed to the sentinel *)
(* identity "anonymous".  The accepted entry of such a report records that *)
(* identity, and the text-duplicate predicate is true for such a report    *)
(* exactly when an accepted entry of a report without user_id has the same *)
(* description and category: never on account of the entry of a user with  *)
(* an id of their own.                                                     *)
(***************************************************************************)
Anonymous == Str(<<"a", "n", "o", "n", "y", "m", "o", "u", "s">>)

NoUserId(rep) == ~Truthy(Get(rep, "user_id"))

\* the entry was written for a report without user_id
OfAnonymous(k) == \E rep \in ReportsOfCall(ledger[k].by) : NoUserId(rep)

SameDescriptionAndCategory(rep, rec) ==
  /\ Normalized(OrElse(Get(rec, "description"), EmptyStr)) = Normalized(DescriptionOf(rep))
  /\ Get(rec, "category") = detect_category(Val(DescriptionOf(rep)))[1]

C34_AnonymousIdentity ==
  /\ \A k \in DOMAIN ledger :
       (ledger[k].by # 0 /\ Accepted(ledger[k].rec) /\ OfAnonymous(k)) => ledger[k].rec["user_id"] = Anonymous
  /\ pc[1] = "idle" =>
       \A rep \in ReportsOf(family) :
         NoUserId(rep) =>
           is_duplicate(UserIdOf(rep), DescriptionOf(rep), detect_category(Val(DescriptionOf(rep)))[1], ledger, FALSE)
             = (\E k \in DOMAIN ledger :
                  /\ ledger[k].by # 0 /\ IsAcceptedRecord(ledger[k].rec) /\ OfAnonymous(k)
                  /\ SameDescriptionAndCategory(rep, ledger[k].rec))

(***************************************************************************)
(* C35: with one call at a time and no failing read or write of the        *)
(* ledger, no two accepted entries have the same normalized user_id, the   *)
(* same normalized description and the same category.  As a step: a call   *)
(* whose text-duplicate check read the ledger, started on a ledger         *)
(* whose lines are records and hold no two such entries, leaves a ledger   *)
(* without two such entries (a write that fails adds no entry).            *)
(***************************************************************************)
SameTextEntry(a, b) ==
  /\ Normalized(OrElse(Get(a, "user_id"), Anon)) = Normalized(OrElse(Get(b, "user_id"), Anon))
  /\ Normalized(OrElse(Get(a, "description"), EmptyStr)) = Normalized(OrElse(Get(b, "description"), EmptyStr))
  /\ Get(a, "category") = Get(b, "category")

AcceptedEntry(file, k) == file[k].part = "whole" /\ IsAcceptedRecord(file[k].rec)

NoTextDuplicates(file) ==
  \A i \in DOMAIN file : \A j \in DOMAIN file :
    (i < j /\ AcceptedEntry(file, i) /\ AcceptedEntry(file, j)) => ~SameTextEntry(file[i].rec, file[j].rec)

\* every line of the file is the record of a call, as on a file that only the pipeline wrote
OnlyRecords(file) == \A k \in DOMAIN file : file[k].part = "whole"

TextDuplicatesKeptOut ==
  (OnlyRecords(ledger) /\ NoTextDuplicates(ledger) /\ ~ReadFailed("textdup", 1)) => NoTextDuplicates(ledger')

C35_NoTextDuplicates == [][TextDuplicatesKeptOut]_vars

(***************************************************************************)
(* C36: with one call at a time and no failing read or write of the        *)
(* ledger, no two accepted entries carry the same image_hash.  As a step:  *)
(* a call whose image-duplicate check, if it ran, read the ledger, started *)
(* on a ledger without two such entries, leaves a ledger without two such  *)
(* entries.                                                                *)
(***************************************************************************)
NoHashDuplicates(file) ==
  \A i \in DOMAIN file : \A j \in DOMAIN file :
    (i < j /\ AcceptedEntry(file, i) /\ AcceptedEntry(file, j) /\ file[i].rec["image_hash"] # Absent)
      => file[i].rec["image_hash"] # file[j].rec["image_hash"]

HashDuplicatesKeptOut == (NoHashDuplicates(ledger) /\ ~ReadFailed("imgdup", 1)) => NoHashDuplicates(ledger')

C36_NoHashDuplicates == [][HashDuplicatesKeptOut]_vars

(***************************************************************************)
(* C37: the entry that a call writes agrees with the response of the call  *)
(* on report_id, accept, status, category, confidence and reason: keys of  *)
(* those names in the report of the caller do not reach the entry.         *)
(***************************************************************************)
OutcomeKeys == {"report_id", "accept", "status", "category", "confidence", "reason"}

Agrees(rec, res) == \A f \in OutcomeKeys : rec[f] # Absent /\ rec[f] = res[f]

C37_EntryAgreesWithResponse ==
  /\ \A j \in DOMAIN responses : \A k \in EntriesOf(responses[j].call) : Agrees(ledger[k].rec, responses[j].result)
  /\ pc[1] = "return" => \A k \in EntriesOf(call[1]) : Agrees(ledger[k].rec, result[1])

\* the caller supplied a category, a status, an accept flag, a reason or a confidence other
\* than that of the outcome, and the entry of the call was written
C37_Witness ==
  /\ Len(responses) = 2
  /\ \A j \in DOMAIN responses :
       /\ EntriesOf(responses[j].call) # {}
       /\ \E f \in OutcomeKeys : responses[j].report[f] # Absent /\ responses[j].report[f] # responses[j].result[f]
  /\ \E j \in DOMAIN responses : Accepted(responses[j].result) /\ responses[j].report["category"] = StreetLighting
  /\ \E j \in DOMAIN responses : Rejected(responses[j].result) /\ responses[j].report["status"] = Word("accepted")

(***************************************************************************)
(* C38: in every response of classify_report and in every entry it writes, *)
(* accept is true with status "accepted" or accept is false with status    *)
(* "rejected"; no other pair of accept and status occurs.                  *)
(***************************************************************************)
Consistent(res) == Accepted(res) \/ Rejected(res)

C38_AcceptMatchesStatus ==
  /\ \A j \in DOMAIN responses : Consistent(responses[j].result)
  /\ \A k \in DOMAIN ledger : ledger[k].by # 0 => Consistent(ledger[k].rec)
  /\ pc[1] \in {"accept", "reject", "return"} => Consistent(result[1]) /\ Consistent(ReportForSave(report[1], result[1]))

\* an accepted and a rejected call have returned and written their entries; the report of
\* the rejected one said status "accepted" and accept true
C38_Witness ==
  /\ Len(responses) = 2
  /\ Len(ledger) = 2
  /\ \E j \in DOMAIN responses : Accepted(responses[j].result)
  /\ \E j \in DOMAIN responses :
       /\ Rejected(responses[j].result)
       /\ responses[j].report["status"] = Word("accepted")
       /\ responses[j].report["accept"] = Bool(TRUE)
  /\ \A k \in DOMAIN ledger : ledger[k].by # 0

(***************************************************************************)
(* C39: when the category classifier raises, the report is rejected with   *)
(* category "Other" and confidence 0.0, no abuse, duplicate, image or      *)
(* urgency check runs for it, and when the call returns the ledger holds   *)
(* one entry for it.                                                       *)
(***************************************************************************)
ClassifierRaised(w) == log[w] # <<>> /\ log[w][1] = Ran("category", "raise", FALSE)

RejectedAsOther(res) ==
  /\ Rejected(res)
  /\ res["category"] = Other
  /\ res["confidence"] = Num(0)
  /\ res["reason"] = ReasonCategoryError

C39_ClassifierFailure ==
  ClassifierRaised(1) =>
    /\ Len(log[1]) = 1
    /\ pc[1] \in {"reject", "return"}
    /\ RejectedAsOther(result[1])
    /\ pc[1] = "reject" => EntriesOf(call[1]) = {}
    /\ pc[1] = "return" =>
         /\ Cardinality(EntriesOf(call[1])) = 1
         /\ \A k \in EntriesOf(call[1]) : RejectedAsOther(ledger[k].rec)

=============================================================================
